---- MODULE Spec2Model ----
(***************************************************************************)
(* AMSender: mail-merge batch delivery.                                    *)
(*                                                                         *)
(* Spec     one execution of BatchController.run over either transport     *)
(*          (EmailSender / GmailSender), with the UI's stop flag, the      *)
(*          wall clock and the OAuth token's expiry as the environment.    *)
(* SpecRec  the evidence recorder (Comprovacao) driven through its public  *)
(*          methods in any order.                                          *)
(***************************************************************************)
EXTENDS FiniteSets, Integers, Sequences, TLC

(***************************************************************************)
(* Bounds of the model.                                                    *)
(***************************************************************************)
MaxRecipients == 2
MaxClock == 1
MaxCalls == 2
MaxParts == 3

(***************************************************************************)
(* Program constants.                                                      *)
(***************************************************************************)
retry_count == 3
\* time.sleep(2) before an SMTP retry
SmtpPause == 2
\* time.sleep(1) after a successful _refresh_auth
RefreshPause == 1
\* time.sleep(5) after rateLimitExceeded
RateLimitPause == 5
\* time.sleep(2) after any other provider error
ErrorPause == 2

(***************************************************************************)
(* Addresses are sequences of characters.                                  *)
(***************************************************************************)
NoEmail == << >>
EmailA == <<"a", "@", "x", ".", "c", "o">>
EmailB == <<"b", "@", "x", ".", "c", "o">>
EmailDot == <<"a", ".", "b", "@", "x", ".", "c", "o">>
EmailUnd == <<"a", "_", "b", "@", "x", ".", "c", "o">>
EmailBad == <<"a", "@", "x">>

Letters == {"a", "b", "c", "o", "x"}
LocalChars == Letters \cup {".", "_", "%", "+", "-"}
DomainChars == Letters \cup {".", "-"}

\* str.strip(): leading and trailing blanks removed.
RECURSIVE StripLeft(_)
StripLeft(s) ==
    IF s # << >> /\ Head(s) = " " THEN StripLeft(Tail(s)) ELSE s

RECURSIVE StripRight(_)
StripRight(s) ==
    IF s # << >> /\ s[Len(s)] = " " THEN StripRight(SubSeq(s, 1, Len(s) - 1)) ELSE s

Strip(s) == StripRight(StripLeft(s))

\* re.match(r'^[a-zA-Z0-9._%+-]+@[a-zA-Z0-9.-]+\.[a-zA-Z]{2,}$', email)
MatchesPattern(e) ==
    \E i \in 1..Len(e) : \E j \in 1..Len(e) :
        /\ 1 < i /\ i + 1 < j /\ j + 2 <= Len(e)
        /\ e[i] = "@" /\ e[j] = "."
        /\ \A p \in 1..(i - 1) : e[p] \in LocalChars
        /\ \A p \in (i + 1)..(j - 1) : e[p] \in DomainChars
        /\ \A p \in (j + 1)..Len(e) : e[p] \in Letters

\* Validators.validate_email: (is_valid, error_message)
validate_email(email) ==
    IF email = << >> \/ Strip(email) = << >>
    THEN [is_valid |-> FALSE, err |-> "Email nao pode estar vazio"]
    ELSE IF ~MatchesPattern(Strip(email))
    THEN [is_valid |-> FALSE, err |-> "Formato de email invalido"]
    ELSE [is_valid |-> TRUE, err |-> "None"]

\* to_email.replace('@', '_at_').replace('.', '_')
RECURSIVE safe_email(_)
safe_email(e) ==
    IF e = << >> THEN << >>
    ELSE (IF Head(e) = "@" THEN <<"_", "a", "t", "_">>
          ELSE IF Head(e) = "." THEN <<"_">>
          ELSE <<Head(e)>>) \o safe_email(Tail(e))

(***************************************************************************)
(* Recipient records and the body renderer.                                *)
(***************************************************************************)
RecipientKinds ==
    { [email |-> EmailA, nome |-> "A"],
      [email |-> NoEmail, nome |-> "C"],
      [email |-> EmailB, nome |-> "ERR"],
      [email |-> EmailBad, nome |-> "D"] }

RecipientLists ==
    UNION { [1..n -> RecipientKinds] : n \in 0..MaxRecipients }

\* TemplateRenderer.process raises for this record.
RenderRaises(r) == r.nome = "ERR"
RenderError(r) == <<"render failed for", r.nome>>
\* TemplateRenderer.process, template "Hi {{nome}}".
get_body(r) == <<"Hi ", r.nome>>

(***************************************************************************)
(* State.                                                                  *)
(***************************************************************************)
VARIABLES
    recipients,         \* run(recipients=...): the input list
    use_oauth,          \* run(use_oauth=...): provider-API transport or SMTP
    should_stop,        \* MainWindow.should_stop, read through stop_flag()
    pc,                 \* position of the run (or "api" under SpecRec)
    idx,                \* send_batch: enumerate(recipients, 1)
    detalhes,           \* send_batch: the outcomes produced so far
    sb_enviados,        \* send_batch: local enviados
    sb_erros,           \* send_batch: local erros
    attempt,            \* send_email: index of the for loop over retry_count
    attempted_refresh,  \* GmailSender.send_email: attempted_refresh
    is_connected,       \* EmailSender.is_connected
    token_file,         \* GoogleOAuth.token_file: the persisted token
    creds,              \* GoogleOAuth.creds: the token held in memory
    service,            \* GmailSender.service is built
    k,                  \* run: position of the recording loop in detalhes
    run_enviados,       \* run: local enviados
    run_erros,          \* run: local erros
    result,             \* what run returned: << >> or <<stats>>
    resumo,             \* Comprovacao.resumo
    disk_resumo,        \* campanha_dir/resumo.json: << >> or <<document>>
    eml_files,          \* names of the .eml files in campanha_dir
    now,                \* wall clock, in seconds
    stop_seen,          \* history: send_batch read stop_flag() as true
    render_calls,       \* history: get_body calls per recipient index
    send_calls,         \* history: submissions to the transport per index
    finalize_calls,     \* history: calls of Comprovacao.finalize
    register_calls,     \* history: calls of Comprovacao.register_email
    progress_calls,     \* history: the indices progress_callback was called with
    delays,             \* history: the indices after which send_batch slept self.delay
    slept,              \* history: seconds the latest pass of send_email's
                        \* retry loop slept (0: it did not sleep)
    refreshes,          \* history: what each _refresh_auth of the send_email
                        \* call in progress or just returned has returned
    last_resp,          \* history: the transport's answer to the latest
                        \* submission of that call: << >> or <<answer>>
    credentials_file,   \* GoogleOAuth.credentials_file: state of credentials.json
    revoked,            \* history: << >>, or <<what the latest
                        \* revoke_authentication returned>> while no
                        \* authenticate has succeeded since
    last_call,          \* history: the latest call of a GoogleOAuth method,
                        \* its inputs and what it returned
    campaigns,          \* history: the Comprovacao objects constructed so
                        \* far, in order of construction
    stats_calls,        \* history: the arguments of each stats_fn call of run
    eml_calls,          \* history: the save_eml calls of run: the outcome
                        \* they were made for and the body they were given
    render,             \* a loaded TemplateProcessor (the parts of its
                        \* template_content), the record it is given and
                        \* what each call of process returned
    shell               \* MainWindow: its buttons, is_sending, the
                        \* _sending_worker threads it started, the callbacks
                        \* queued with root.after, and histories of who
                        \* touched what

vars ==
    << recipients, use_oauth, should_stop, pc, idx, detalhes, sb_enviados,
       sb_erros, attempt, attempted_refresh, is_connected, token_file, creds,
       service, k, run_enviados, run_erros, result, resumo, disk_resumo,
       eml_files, now, stop_seen, render_calls, send_calls, finalize_calls,
       register_calls, progress_calls, delays, slept, refreshes, last_resp,
       credentials_file, revoked, last_call, campaigns, stats_calls, eml_calls, render,
       shell >>

senderVars == << idx, detalhes, sb_enviados, sb_erros, attempt, attempted_refresh >>
oauthVars == << token_file, creds, service >>
recorderVars == << resumo, disk_resumo, eml_files, finalize_calls, register_calls >>
runVars == << k, run_enviados, run_erros, result >>
histVars == << stop_seen, render_calls, send_calls >>
paceVars == << progress_calls, delays >>
callVars == << slept, refreshes, last_resp >>
authVars == << credentials_file, revoked, last_call >>
campaignVars == << campaigns >>
runCallVars == << stats_calls, eml_calls >>
templateVars == << render >>
shellVars == << shell >>

(***************************************************************************)
(* Credential Lifecycle Manager.                                           *)
(***************************************************************************)
TokenStates == {"none", "valid_rt", "valid_nort", "expired_rt", "expired_nort"}

TokenValid(t) == t \in {"valid_rt", "valid_nort"}

\* The token's expiry time passes.
Lapse(t) ==
    IF t = "valid_rt" THEN "expired_rt"
    ELSE IF t = "valid_nort" THEN "expired_nort"
    ELSE t

\* The token file can also hold bytes pickle.load cannot read.
FileStates == TokenStates \cup {"corrupt"}

\* self.token_file.exists()
TokenFileExists(tf) == tf # "none"

\* Faulty variant of is_authenticated: the refreshed token is not written.
is_authenticated_nosave(tf, cr) ==
    IF ~TokenFileExists(tf) \/ tf = "corrupt"
    THEN { [ret |-> FALSE, token_file |-> tf, creds |-> cr] }
    ELSE IF tf = "expired_rt"
    THEN { [ret |-> TRUE, token_file |-> tf, creds |-> "valid_rt"],
           [ret |-> FALSE, token_file |-> tf, creds |-> tf] }
    ELSE { [ret |-> TokenValid(tf), token_file |-> tf, creds |-> tf] }

\* GoogleOAuth.is_authenticated: the possible (return value, token file,
\* in-memory credentials) after the call.
is_authenticated(tf, cr) ==
    IF ~TokenFileExists(tf)
    THEN { [ret |-> FALSE, token_file |-> tf, creds |-> cr] }
    ELSE IF tf = "corrupt"
    \* pickle.load raised: except (..., pickle.UnpicklingError): return False
    THEN { [ret |-> FALSE, token_file |-> tf, creds |-> cr] }
    ELSE IF tf = "expired_rt"
    THEN { [ret |-> TRUE, token_file |-> "valid_rt", creds |-> "valid_rt"],
           \* creds.refresh(Request()) raised
           [ret |-> FALSE, token_file |-> tf, creds |-> tf],
           \* _save_credentials raised after the refresh
           [ret |-> FALSE, token_file |-> tf, creds |-> "valid_rt"] }
    ELSE { [ret |-> TokenValid(tf), token_file |-> tf, creds |-> tf] }

\* What the environment answers during one call of a GoogleOAuth method.
RefreshOutcomes == {"ok", "raised"}          \* creds.refresh(Request())
SaveOutcomes == {"ok", "raised"}             \* open(token_file, 'wb') / pickle.dump
\* flow.run_local_server(...): it returns credentials (with or without a
\* refresh token); it returns them and a later statement of the same try
\* block raises (a message without / with one of the keywords tested at
\* lines 230-234); or it raises: KeyboardInterrupt/SystemExit, a Warning,
\* an error whose message names a timeout or a cancellation, a connection
\* error, any other error.
FlowOutcomes ==
    {"granted_rt", "granted_nort", "granted_error", "granted_keyword",
     "cancelled", "warning", "timeout", "connection", "error"}
FlowGrants == {"granted_rt", "granted_nort", "granted_error", "granted_keyword"}
\* getProfile: the same address, another address, HttpError 403 (then the
\* userinfo lookup, whose failures are swallowed), any other error.
IdentityOutcomes == {"match", "mismatch", "forbidden", "error"}
UnlinkOutcomes == {"ok", "raised"}           \* token_file.unlink()
RevokeOutcomes == {"ok", "raised"}           \* creds.revoke(Request())

NoEnv ==
    [refresh |-> "ok", flow |-> "granted_rt", save |-> "ok", identity |-> "match",
     late |-> FALSE, unlink |-> "ok", remote |-> "ok"]

\* late: an exception is raised after the credentials were saved, outside
\* the handlers of the identity check (lines 318-320).
AuthEnvs ==
    { [NoEnv EXCEPT !.refresh = r, !.flow = f, !.save = s, !.identity = i, !.late = l] :
        r \in RefreshOutcomes, f \in FlowOutcomes, s \in SaveOutcomes,
        i \in IdentityOutcomes, l \in BOOLEAN }

\* What _authenticate_internal returns and leaves behind.  flow: the
\* interactive grant was started; saved: _save_credentials wrote the token
\* during this call; caught: the outermost "except Exception" ran; warned:
\* the mismatch warning was printed.
AuthOutcome(ret, msg, tf, cr, flow, saved, caught, warned) ==
    [ret |-> ret, msg |-> msg, token_file |-> tf, creds |-> cr, flow |-> flow,
     saved |-> saved, caught |-> caught, warned |-> warned]

\* "if self.token_file.exists(): ... return True" in the outermost handler.
TokenSavedIsSuccess(tf) == TokenFileExists(tf)

\* Faulty variant of AfterError: the outermost handler always reports the
\* failure.
AfterError_fails(tf, cr, e, flow, saved, warned) ==
    AuthOutcome(FALSE, "Erro na autenticacao", tf, cr, flow, saved, TRUE, warned)

\* _authenticate_internal, the outermost "except Exception" (lines 327-370).
AfterError(tf, cr, e, flow, saved, warned) ==
    IF TokenSavedIsSuccess(tf)
    THEN AuthOutcome(TRUE, "Autenticacao realizada com sucesso!", tf, cr, flow,
                     saved, TRUE, warned)
    ELSE IF TokenValid(cr)
    THEN IF e.save = "ok"
         THEN AuthOutcome(TRUE, "Autenticacao realizada com sucesso!", cr, cr,
                          flow, TRUE, TRUE, warned)
         ELSE AuthOutcome(FALSE, "Erro ao salvar credenciais", tf, cr, flow,
                          saved, TRUE, warned)
    ELSE AuthOutcome(FALSE, "Erro na autenticacao", tf, cr, flow, saved, TRUE, warned)

\* Faulty variant of IdentityFails: another address fails the authentication.
IdentityFails_mismatch(identity) == identity = "mismatch"

\* The identity check (lines 267-316): every branch of it ends in "pass" or
\* in a print to stderr.
IdentityFails(identity) == FALSE

\* _authenticate_internal from the identity check to the return (267-321).
AuthFinish(tf, cr, e, flow, saved) ==
    IF IdentityFails(e.identity)
    THEN AuthOutcome(FALSE, "Email autenticado difere do informado", tf, cr, flow,
                     saved, FALSE, TRUE)
    ELSE IF e.late
    THEN AfterError(tf, cr, e, flow, saved, e.identity = "mismatch")
    ELSE AuthOutcome(TRUE, "Autenticacao realizada com sucesso!", tf, cr, flow,
                     saved, FALSE, e.identity = "mismatch")

\* "Salva credenciais ANTES de verificar email" (lines 246-265).
AuthSave(tf, cr, e, flow) ==
    IF e.save = "raised"
    THEN AuthOutcome(FALSE, "Erro ao salvar credenciais", tf, cr, flow, FALSE,
                     FALSE, FALSE)
    ELSE AuthFinish(cr, cr, e, flow, TRUE)

\* The handlers of the interactive grant (lines 193-244): the reason
\* returned with False, or << >> when the call goes on to save.  When
\* run_local_server raised, self.creds is still what it was and is not valid.
FlowFailure(f) ==
    IF f \in {"granted_rt", "granted_nort", "granted_error"} THEN << >>
    ELSE IF f = "cancelled" THEN <<"Autenticacao cancelada pelo usuario">>
    ELSE IF f = "warning" THEN <<"Warning durante autenticacao">>
    ELSE IF f \in {"timeout", "granted_keyword"}
    THEN <<"Autenticacao cancelada ou expirada. Tente novamente.">>
    ELSE IF f = "connection" THEN <<"Erro de conexao">>
    ELSE <<"Erro na autenticacao">>

\* The credentials run_local_server assigned to self.creds, if it returned.
FlowCreds(f, cr) ==
    IF f = "granted_nort" THEN "valid_nort"
    ELSE IF f \in FlowGrants THEN "valid_rt"
    ELSE cr

\* GoogleOAuth.authenticate / _authenticate_internal (lines 99-370) with the
\* token file tf, self.creds cr, credentials.json cf and the answers e.
authenticate(tf, cr, cf, e) ==
    LET c1 == IF TokenFileExists(tf) THEN tf ELSE cr IN     \* lines 120-122
    IF tf = "corrupt"
    THEN AfterError(tf, cr, e, FALSE, FALSE, FALSE)                 \* pickle.load raised
    ELSE IF TokenValid(c1)
    THEN AuthFinish(tf, c1, e, FALSE, FALSE)
    ELSE IF c1 = "expired_rt"
    THEN IF e.refresh = "raised"
         THEN AfterError(tf, c1, e, FALSE, FALSE, FALSE)
         ELSE AuthSave(tf, "valid_rt", e, FALSE)
    ELSE IF cf = "missing"
    THEN AuthOutcome(FALSE, "Arquivo credentials.json nao encontrado", tf, c1,
                     FALSE, FALSE, FALSE, FALSE)
    ELSE IF cf = "malformed"
    THEN AfterError(tf, c1, e, FALSE, FALSE, FALSE)     \* from_client_secrets_file raised
    ELSE IF FlowFailure(e.flow) # << >>
    THEN AuthOutcome(FALSE, FlowFailure(e.flow)[1], tf, FlowCreds(e.flow, c1),
                     TRUE, FALSE, FALSE, FALSE)
    ELSE AuthSave(tf, FlowCreds(e.flow, c1), e, TRUE)

\* The answers one call of authenticate can consume: an answer the call does
\* not ask for is left at its value in NoEnv.
AuthEnvsFor(tf, cr, cf) ==
    { e \in AuthEnvs :
        LET c1 == IF TokenFileExists(tf) THEN tf ELSE cr
            loaded == tf # "corrupt"
            refreshing == loaded /\ ~TokenValid(c1) /\ c1 = "expired_rt"
            flowing == loaded /\ ~TokenValid(c1) /\ c1 # "expired_rt" /\ cf = "ok"
            saving == \/ refreshing /\ e.refresh = "ok"
                      \/ flowing /\ FlowFailure(e.flow) = << >>
            finishing == \/ loaded /\ TokenValid(c1)
                         \/ saving /\ e.save = "ok"
            saving_late == finishing /\ e.late /\ ~TokenFileExists(tf) /\ ~saving
        IN  /\ refreshing \/ e.refresh = NoEnv.refresh
            /\ flowing \/ e.flow = NoEnv.flow
            /\ saving \/ saving_late \/ e.save = NoEnv.save
            /\ finishing \/ (e.identity = NoEnv.identity /\ e.late = NoEnv.late) }

\* GoogleOAuth.get_service (lines 387-404): the handle or the exception
\* raised, and what the call leaves behind.
ServiceOutcome(raised, tf, cr, sv) ==
    [handle |-> raised = "none", raised |-> raised, token_file |-> tf,
     creds |-> cr, service |-> sv]

\* Faulty variant of get_service: an expired token is not refreshed.
get_service_norefresh(tf, cr, sv, e) ==
    IF TokenValid(cr) THEN ServiceOutcome("none", tf, cr, TRUE)
    ELSE ServiceOutcome("not_authenticated", tf, cr, sv)

get_service(tf, cr, sv, e) ==
    IF TokenValid(cr)
    THEN ServiceOutcome("none", tf, cr, TRUE)
    ELSE IF cr = "expired_rt"
    THEN IF e.refresh = "raised" THEN ServiceOutcome("refresh", tf, cr, sv)
         ELSE IF e.save = "raised" THEN ServiceOutcome("save", tf, "valid_rt", sv)
         ELSE ServiceOutcome("none", "valid_rt", "valid_rt", TRUE)
    ELSE ServiceOutcome("not_authenticated", tf, cr, sv)

\* GoogleOAuth.revoke_authentication (lines 406-428).
RevokeOutcome(ret, tf, cr, sv) ==
    [ret |-> ret, token_file |-> tf, creds |-> cr, service |-> sv]

\* Faulty variant of revoke_authentication: a failed remote revocation ends
\* the call.
revoke_authentication_remote(tf, cr, sv, e) ==
    IF TokenFileExists(tf) /\ e.unlink = "raised" THEN RevokeOutcome(FALSE, tf, cr, sv)
    ELSE IF cr # "none" /\ e.remote = "raised" THEN RevokeOutcome(FALSE, "none", cr, sv)
    ELSE RevokeOutcome(TRUE, "none", "none", FALSE)

revoke_authentication(tf, cr, sv, e) ==
    IF TokenFileExists(tf) /\ e.unlink = "raised"
    THEN RevokeOutcome(FALSE, tf, cr, sv)        \* the outer "except Exception"
    ELSE RevokeOutcome(TRUE, "none", "none", FALSE)

(***************************************************************************)
(* Evidence Recorder (Comprovacao).                                        *)
(***************************************************************************)
EmptyResumo == [emails |-> << >>, enviados |-> 0, erros |-> 0, total |-> 0]

\* f"{safe_email}_{datetime.now().strftime('%Y%m%d_%H%M%S')}.eml"
eml_filename(to_email, t) == <<safe_email(to_email), t>>

\* Faulty variant of register_email: a failure is not counted.
register_email_nocount(res, to_email, status, message, eml_path) ==
    [res EXCEPT
        !.emails = Append(@, [email |-> to_email, status |-> status,
                              mensagem |-> message, eml_path |-> eml_path]),
        !.enviados = IF status = "enviado" THEN @ + 1 ELSE @]

\* Comprovacao.register_email on self.resumo
register_email(res, to_email, status, message, eml_path) ==
    [res EXCEPT
        !.emails = Append(@, [email |-> to_email, status |-> status,
                              mensagem |-> message, eml_path |-> eml_path]),
        !.enviados = IF status = "enviado" THEN @ + 1 ELSE @,
        !.erros = IF status = "enviado" THEN @ ELSE @ + 1]

\* Comprovacao.finalize on self.resumo
finalize(res) == [res EXCEPT !.total = Len(res.emails)]

\* The parameters Comprovacao.register_email declares.
register_email_params ==
    { "to_email", "subject", "status", "message", "eml_path", "gmail_message_id",
      "gmail_thread_id", "message_id", "headers", "timestamp_envio",
      "attachments_count", "message_size" }

\* The keyword arguments BatchController.run passes for a sent outcome.
run_sent_kwargs ==
    { "to_email", "subject", "attachments_count", "status", "message", "eml_path",
      "gmail_message_id", "gmail_thread_id", "message_id", "headers",
      "timestamp_envio", "attachments_hashes", "raw_message", "history_id" }

\* The keyword arguments BatchController.run passes for a failed outcome.
run_error_kwargs ==
    { "to_email", "subject", "status", "message", "eml_path", "attachments_count",
      "attachments_hashes", "raw_message", "history_id" }

\* Python raises TypeError for a keyword the callee does not declare.
RaisesTypeError(kwargs, params) == ~(kwargs \subseteq params)

(***************************************************************************)
(* Initial states.                                                         *)
(***************************************************************************)
(***************************************************************************)
(* Comprovacao.__init__: the campaign's directory.                         *)
(***************************************************************************)
\* Campaign names are sequences of characters; << >> is None (or "").
NameNone == << >>
NameSpaced == <<"L", "o", "t", " ", "1">>
NameUnder == <<"l", "o", "t", "_", "1">>
NameSymbols == <<"!", "?">>
CampaignNames == {NameNone, NameSpaced, NameUnder, NameSymbols}

UpperLetters ==
    <<"A", "B", "C", "D", "E", "F", "G", "H", "I", "J", "K", "L", "M",
      "N", "O", "P", "Q", "R", "S", "T", "U", "V", "W", "X", "Y", "Z">>
LowerLetters ==
    <<"a", "b", "c", "d", "e", "f", "g", "h", "i", "j", "k", "l", "m",
      "n", "o", "p", "q", "r", "s", "t", "u", "v", "w", "x", "y", "z">>
Digits == <<"0", "1", "2", "3", "4", "5", "6", "7", "8", "9">>

\* str.isalnum() of one character
isalnum(c) ==
    \/ \E i \in DOMAIN UpperLetters : c = UpperLetters[i]
    \/ \E i \in DOMAIN LowerLetters : c = LowerLetters[i]
    \/ \E i \in DOMAIN Digits : c = Digits[i]

\* "".join(c for c in name if c.isalnum() or c in (' ', '-', '_'))
RECURSIVE KeepSafeChars(_)
KeepSafeChars(s) ==
    IF s = << >> THEN << >>
    ELSE (IF isalnum(Head(s)) \/ Head(s) \in {" ", "-", "_"} THEN <<Head(s)>>
          ELSE << >>) \o KeepSafeChars(Tail(s))

\* str.lower()
lower(s) ==
    [p \in DOMAIN s |->
        IF \E i \in DOMAIN UpperLetters : s[p] = UpperLetters[i]
        THEN LowerLetters[CHOOSE i \in DOMAIN UpperLetters : s[p] = UpperLetters[i]]
        ELSE s[p]]

\* .replace(' ', '-').replace('_', '-')
HyphenateBlanks(s) == [p \in DOMAIN s |-> IF s[p] \in {" ", "_"} THEN "-" ELSE s[p]]

\* One pass of .replace('--', '-')
RECURSIVE ReplaceDoubleHyphen(_)
ReplaceDoubleHyphen(s) ==
    IF Len(s) < 2 THEN s
    ELSE IF s[1] = "-" /\ s[2] = "-"
    THEN <<"-">> \o ReplaceDoubleHyphen(SubSeq(s, 3, Len(s)))
    ELSE <<Head(s)>> \o ReplaceDoubleHyphen(Tail(s))

HasDoubleHyphen(s) == \E p \in 1..(Len(s) - 1) : s[p] = "-" /\ s[p + 1] = "-"

\* while '--' in name: name = name.replace('--', '-')
RECURSIVE CollapseHyphens(_)
CollapseHyphens(s) ==
    IF HasDoubleHyphen(s) THEN CollapseHyphens(ReplaceDoubleHyphen(s)) ELSE s

\* .strip('-')
RECURSIVE StripHyphens(_)
StripHyphens(s) ==
    IF s # << >> /\ Head(s) = "-" THEN StripHyphens(Tail(s))
    ELSE IF s # << >> /\ s[Len(s)] = "-" THEN StripHyphens(SubSeq(s, 1, Len(s) - 1))
    ELSE s

\* The clock counts seconds from 15/01/2026 15:00:00.
SecondsPerMinute == 60
TwoDigits(n) == <<Digits[(n \div 10) + 1], Digits[(n % 10) + 1]>>
Minute(t) == (t \div SecondsPerMinute) % 60
Second(t) == t % SecondsPerMinute

\* strftime('%Y%m%d_%H%M%S')
strftime_seconds(t) ==
    <<"2", "0", "2", "6", "0", "1", "1", "5", "_", "1", "5">>
        \o TwoDigits(Minute(t)) \o TwoDigits(Second(t))

\* strftime('%d%m%y-%H%M')
timestamp_str(t) ==
    <<"1", "5", "0", "1", "2", "6", "-", "1", "5">> \o TwoDigits(Minute(t))

\* campanha_name or f"campanha_{timestamp}"
campanha_name_or_default(campanha_name, t) ==
    IF campanha_name # << >> THEN campanha_name
    ELSE <<"c", "a", "m", "p", "a", "n", "h", "a", "_">> \o strftime_seconds(t)

safe_campanha_name(name) ==
    LET s == StripHyphens(CollapseHyphens(HyphenateBlanks(lower(Strip(KeepSafeChars(name))))))
    IN IF s = << >> THEN <<"c", "a", "m", "p", "a", "n", "h", "a">> ELSE s

\* f"{safe_campanha_name}-{timestamp_str}"
folder_name(name, t) == safe_campanha_name(name) \o <<"-">> \o timestamp_str(t)

\* Comprovacao.__init__ at time t: the directory is created if it does not
\* exist (mkdir(parents=True, exist_ok=True)) and used as it is if it does.
Comprovacao_init(campanha_name, t) ==
    LET name == campanha_name_or_default(campanha_name, t) IN
    [campanha_name |-> name,
     campanha_dir |-> folder_name(name, t),
     log_file |-> <<"l", "o", "g", "_">> \o strftime_seconds(t),
     timestamp |-> t]

(***************************************************************************)
(* TemplateProcessor.process on templates and records made of characters.  *)
(***************************************************************************)
\* str.upper()
upper(s) ==
    [p \in DOMAIN s |->
        IF \E i \in DOMAIN LowerLetters : s[p] = LowerLetters[i]
        THEN UpperLetters[CHOOSE i \in DOMAIN LowerLetters : s[p] = LowerLetters[i]]
        ELSE s[p]]

\* str.capitalize()
capitalize(s) ==
    IF s = << >> THEN s ELSE upper(<<Head(s)>>) \o lower(Tail(s))

\* \w of one character
IsWordChar(c) == isalnum(c) \/ c = "_"

\* One character of the class: \w when word, [^}] otherwise.
InClass(c, word) == IF word THEN IsWordChar(c) ELSE c # "}"

\* Length of the longest run of characters of the class that starts at
\* position p of s.
RECURSIVE RunLength(_, _, _)
RunLength(s, p, word) ==
    IF p <= Len(s) /\ InClass(s[p], word) THEN 1 + RunLength(s, p + 1, word) ELSE 0

IsAt(s, p, part) ==
    /\ p + Len(part) - 1 <= Len(s)
    /\ SubSeq(s, p, p + Len(part) - 1) = part

\* Length of the match of "{{", one or more characters of the class, "}}"
\* at position p of s, or 0.
BracedAt(s, p, word) ==
    LET n == RunLength(s, p + 2, word) IN
    IF IsAt(s, p, <<"{", "{">>) /\ n > 0 /\ IsAt(s, p + 2 + n, <<"}", "}">>)
    THEN n + 4 ELSE 0

\* re.findall(r'\{\{(\w+)\}\}', s), scanning from position p
RECURSIVE FindPlaceholders(_, _)
FindPlaceholders(s, p) ==
    IF p > Len(s) THEN << >>
    ELSE LET m == BracedAt(s, p, TRUE) IN
         IF m > 0
         THEN <<SubSeq(s, p + 2, p + m - 3)>> \o FindPlaceholders(s, p + m)
         ELSE FindPlaceholders(s, p + 1)

\* s.replace(old, new), old not empty
RECURSIVE Replace(_, _, _)
Replace(s, old, new) ==
    IF s = << >> THEN << >>
    ELSE IF IsAt(s, 1, old)
    THEN new \o Replace(SubSeq(s, Len(old) + 1, Len(s)), old, new)
    ELSE <<Head(s)>> \o Replace(Tail(s), old, new)

\* f'{{{{{name}}}}}'
Braced(name) == <<"{", "{">> \o name \o <<"}", "}">>

\* re.sub(r'\{\{[^}]+\}\}', '', s)
RECURSIVE RemoveLeftovers(_)
RemoveLeftovers(s) ==
    IF s = << >> THEN << >>
    ELSE LET m == BracedAt(s, 1, FALSE) IN
         IF m > 0 THEN RemoveLeftovers(SubSeq(s, m + 1, Len(s)))
         ELSE <<Head(s)>> \o RemoveLeftovers(Tail(s))

\* data.get(key, '')
DataGet(data, key) == IF key \in DOMAIN data THEN data[key] ELSE << >>

\* The for loop over the placeholders found.
RECURSIVE Substitute(_, _, _)
Substitute(text, placeholders, data) ==
    IF placeholders = << >> THEN text
    ELSE LET placeholder == Head(placeholders)
             value == DataGet(data, lower(placeholder))
             r1 == Replace(text, Braced(placeholder), value)
             r2 == Replace(r1, Braced(upper(placeholder)), value)
             r3 == Replace(r2, Braced(capitalize(placeholder)), value)
         IN Substitute(r3, Tail(placeholders), data)

\* TemplateProcessor.process with template_content loaded
process(template_content, data) ==
    RemoveLeftovers(Substitute(template_content,
                               FindPlaceholders(template_content, 1), data))

\* Templates are made of these parts; records have the key "co" and
\* possibly the key "c o".
PartLower == <<"{", "{", "c", "o", "}", "}">>
PartUpper == <<"{", "{", "C", "O", "}", "}">>
PartCapital == <<"{", "{", "C", "o", "}", "}">>
PartMalformed == <<"{", "{", "c", " ", "o", "}", "}">>
PartText == <<"|">>
TemplateParts == {PartLower, PartUpper, PartCapital, PartMalformed, PartText}

RECURSIVE Concat(_)
Concat(parts) == IF parts = << >> THEN << >> ELSE Head(parts) \o Concat(Tail(parts))

Templates == UNION { [1..n -> TemplateParts] : n \in 1..MaxParts }

ValuePlain == <<"v">>
ValueBraced == <<"x", "{", "{", "C", "O", "}", "}">>
KeyCo == <<"c", "o">>
KeySpaced == <<"c", " ", "o">>
Records ==
    { [key \in {KeyCo} |-> v] : v \in {ValuePlain, ValueBraced} }
        \cup { [key \in {KeyCo, KeySpaced} |-> v] : v \in {ValuePlain, ValueBraced} }

NoRender == [parts |-> << >>, data |-> << >>, outs |-> << >>]

(***************************************************************************)
(* The desktop shell (MainWindow): widget states and its fresh state.      *)
(***************************************************************************)
NORMAL == "normal"
DISABLED == "disabled"

\* _start_sending, line 740: the state it gives the start button, faulty
\* variant that leaves the button enabled while the batch runs.
start_btn_left_normal == NORMAL

\* _start_sending, line 740: self.start_btn.config(state=DISABLED)
start_btn_while_sending == DISABLED

\* MainWindow.__init__ before any status check: no run, no sender object,
\* nothing queued with root.after.
NoShell ==
    [start_btn |-> NORMAL, stop_btn |-> DISABLED, oauth_login_btn |-> NORMAL,
     oauth_logout_btn |-> DISABLED, is_sending |-> FALSE, has_sender |-> FALSE,
     workers |-> << >>, worker_sender |-> "unread", dropped_creds |-> "none",
     auth_thread |-> FALSE, after |-> << >>, finished |-> 0, touched |-> {},
     ui_calls |-> {}]

InitRecorder ==
    /\ resumo = EmptyResumo
    /\ disk_resumo = << >>
    /\ eml_files = {}
    /\ finalize_calls = 0
    /\ register_calls = 0
    /\ now = 0

\* The run's (or the driver's) Comprovacao was constructed without a name
\* when the clock starts.
InitCampaign == campaigns = <<Comprovacao_init(NameNone, 0)>>

InitSender ==
    /\ idx = 1
    /\ detalhes = << >>
    /\ sb_enviados = 0
    /\ sb_erros = 0
    /\ attempt = 0
    /\ attempted_refresh = FALSE
    /\ is_connected = FALSE
    /\ creds = "none"
    /\ service = FALSE
    /\ progress_calls = << >>
    /\ delays = << >>
    /\ slept = 0
    /\ refreshes = << >>
    /\ last_resp = << >>

\* No GoogleOAuth method has been called yet.
NoCall ==
    [op |-> "none", tf0 |-> "none", cr0 |-> "none", env |-> NoEnv, ret |-> FALSE,
     msg |-> "", raised |-> "none", flow |-> FALSE, saved |-> FALSE,
     caught |-> FALSE, warned |-> FALSE, tf1 |-> "none", cr1 |-> "none",
     sv1 |-> FALSE]

\* During a run credentials.json is in place.
InitAuth ==
    /\ credentials_file = "ok"
    /\ revoked = << >>
    /\ last_call = NoCall

InitRunLocals ==
    /\ k = 1
    /\ run_enviados = 0
    /\ run_erros = 0
    /\ result = << >>
    /\ should_stop = FALSE
    /\ stop_seen = FALSE
    /\ stats_calls = << >>
    /\ eml_calls = << >>
    /\ render = NoRender
    /\ shell = NoShell

Init ==
    /\ recipients \in RecipientLists
    /\ use_oauth \in BOOLEAN
    /\ token_file \in (IF use_oauth THEN TokenStates ELSE {"none"})
    /\ pc = "start"
    /\ render_calls = [i \in 1..Len(recipients) |-> 0]
    /\ send_calls = [i \in 1..Len(recipients) |-> 0]
    /\ InitSender
    /\ InitRunLocals
    /\ InitRecorder
    /\ InitAuth
    /\ InitCampaign

(***************************************************************************)
(* Environment: the UI thread's stop button, the clock, token expiry.      *)
(***************************************************************************)
\* MainWindow._stop_sending: self.should_stop = True.  The flag is read by
\* send_batch only, so the button is modelled until send_batch returns.
StopSending ==
    /\ pc \in {"start", "batch", "send"}
    /\ ~should_stop
    /\ should_stop' = TRUE
    /\ UNCHANGED << recipients, use_oauth, pc, senderVars, is_connected, oauthVars,
                    runVars, recorderVars, now, histVars, paceVars, callVars >>
    /\ UNCHANGED authVars
    /\ UNCHANGED campaignVars
    /\ UNCHANGED templateVars
    /\ UNCHANGED shellVars
    /\ UNCHANGED runCallVars

Tick ==
    /\ pc \in {"record", "api", "campaigns"}
    /\ now < MaxClock
    /\ now' = now + 1
    /\ UNCHANGED << recipients, use_oauth, should_stop, pc, senderVars, is_connected,
                    oauthVars, runVars, recorderVars, histVars, paceVars, callVars >>
    /\ UNCHANGED authVars
    /\ UNCHANGED campaignVars
    /\ UNCHANGED templateVars
    /\ UNCHANGED shellVars
    /\ UNCHANGED runCallVars

TokenExpires ==
    /\ use_oauth
    /\ pc \in {"start", "batch", "send", "auth"}
    /\ TokenValid(token_file) \/ TokenValid(creds)
    /\ token_file' = Lapse(token_file)
    /\ creds' = Lapse(creds)
    /\ UNCHANGED << recipients, use_oauth, should_stop, pc, senderVars, is_connected,
                    service, runVars, recorderVars, now, histVars, paceVars, callVars >>
    /\ UNCHANGED authVars
    /\ UNCHANGED campaignVars
    /\ UNCHANGED templateVars
    /\ UNCHANGED shellVars
    /\ UNCHANGED runCallVars

(***************************************************************************)
(* BatchController.run, lines 36-52: the readiness check.                  *)
(***************************************************************************)
\* Faulty variant of NotReadyResult: the recipients are not counted as failed.
NotReadyResult_zero(total_recipients) ==
    [total |-> total_recipients, enviados |-> 0, erros |-> 0, detalhes |-> << >>]

\* The dict returned when the sender is not ready.
NotReadyResult(total_recipients) ==
    [total |-> total_recipients, enviados |-> 0, erros |-> total_recipients,
     detalhes |-> << >>]

StartRun ==
    /\ pc = "start"
    /\ IF use_oauth
       THEN \E a \in is_authenticated(token_file, creds) :
                /\ token_file' = a.token_file
                /\ creds' = a.creds
                /\ pc' = IF a.ret THEN "batch" ELSE "aborted"
                /\ result' = IF a.ret THEN result
                             ELSE <<NotReadyResult(Len(recipients))>>
                /\ UNCHANGED is_connected
       ELSE \E connected \in BOOLEAN :      \* EmailSender.connect()
                /\ is_connected' = connected
                /\ pc' = IF connected THEN "batch" ELSE "aborted"
                /\ result' = IF connected THEN result
                             ELSE <<NotReadyResult(Len(recipients))>>
                /\ UNCHANGED << token_file, creds >>
    /\ UNCHANGED << recipients, use_oauth, should_stop, senderVars, service, k,
                    run_enviados, run_erros, recorderVars, now, histVars, paceVars, callVars >>
    /\ UNCHANGED authVars
    /\ UNCHANGED campaignVars
    /\ UNCHANGED templateVars
    /\ UNCHANGED shellVars
    /\ UNCHANGED runCallVars

(***************************************************************************)
(* send_batch (EmailSender and GmailSender): one pass of the loop up to    *)
(* the call of send_email.                                                 *)
(***************************************************************************)
\* A failure outcome: the dict has no headers and no provider id.
ErrorDetail(i, to_email, mensagem) ==
    [email |-> to_email, status |-> "erro", mensagem |-> mensagem, src |-> i,
     gmail_message_id |-> << >>, headers |-> "none", raw_hash |-> << >>]

\* GmailSender.send_batch, "Hash do raw (se retornado)": the digest of the
\* raw message when send_email returned one, None otherwise.
raw_hash(raw_b64) == IF raw_b64 # << >> THEN <<"sha256">> ELSE << >>

\* A sent outcome, built from the dict send_email returned.  The run sends
\* without attachments, so 'attachments_hashes' is the empty dict throughout
\* and is left out.
SentDetail(i, to_email, message) ==
    [email |-> to_email, status |-> "enviado", mensagem |-> message.message,
     src |-> i, gmail_message_id |-> message.gmail_message_id,
     headers |-> message.headers, raw_hash |-> raw_hash(message.raw)]

\* Faulty variant of MissingAddress: the check is dropped.
MissingAddress_dropped(r) == FALSE

\* "if not to_email: ... continue"
MissingAddress(r) == r.email = << >>

\* Faulty variant of TemplateErrorMessage: the exception text is left out.
TemplateErrorMessage_noerr(r) == <<"Erro ao processar template">>

\* f'Erro ao processar template: {e}'
TemplateErrorMessage(r) == <<"Erro ao processar template: ">> \o RenderError(r)

\* Faulty variant of InvalidAddress: the address is not validated.
InvalidAddress_dropped(r) == FALSE

\* GmailSender.send_batch only: "if not is_valid: ... continue"
InvalidAddress(r) == use_oauth /\ ~validate_email(r.email).is_valid

\* The next pass of send_batch's loop begins (or the loop ends): nothing is
\* left of the previous send_email call, whose locals are gone.
ClearCall ==
    /\ attempt' = 0
    /\ attempted_refresh' = FALSE
    /\ slept' = 0
    /\ refreshes' = << >>
    /\ last_resp' = << >>

\* The `continue` paths: the outcome is appended and the loop moves on.
Skip(detail) ==
    /\ detalhes' = Append(detalhes, detail)
    /\ sb_erros' = sb_erros + 1
    /\ idx' = idx + 1
    /\ pc' = "batch"
    /\ UNCHANGED << sb_enviados, paceVars >>

\* "if idx < total: time.sleep(self.delay)"
PacingDelay(i, total) == i < total

\* send_email returned: the outcome is appended, progress_callback is called,
\* the pacing delay is slept and the loop moves on.
Complete(detail) ==
    /\ detalhes' = Append(detalhes, detail)
    /\ sb_enviados' = IF detail.status = "enviado" THEN sb_enviados + 1 ELSE sb_enviados
    /\ sb_erros' = IF detail.status = "enviado" THEN sb_erros ELSE sb_erros + 1
    /\ progress_calls' = Append(progress_calls, idx)
    /\ delays' = IF PacingDelay(idx, Len(recipients)) THEN Append(delays, idx)
                 ELSE delays
    /\ idx' = idx + 1
    /\ pc' = "batch"

BatchBreak ==
    /\ pc = "batch"
    /\ idx <= Len(recipients)
    /\ should_stop
    /\ stop_seen' = TRUE
    /\ pc' = "record"
    /\ ClearCall
    /\ UNCHANGED << recipients, use_oauth, should_stop, idx, detalhes, sb_enviados,
                    sb_erros, is_connected,
                    oauthVars, runVars, recorderVars, now, render_calls, send_calls,
                    paceVars >>
    /\ UNCHANGED authVars
    /\ UNCHANGED campaignVars
    /\ UNCHANGED templateVars
    /\ UNCHANGED shellVars
    /\ UNCHANGED runCallVars

BatchReturn ==
    /\ pc = "batch"
    /\ idx > Len(recipients)
    /\ pc' = "record"
    /\ ClearCall
    /\ UNCHANGED << recipients, use_oauth, should_stop, idx, detalhes, sb_enviados,
                    sb_erros, is_connected,
                    oauthVars, runVars, recorderVars, now, histVars, paceVars >>
    /\ UNCHANGED authVars
    /\ UNCHANGED campaignVars
    /\ UNCHANGED templateVars
    /\ UNCHANGED shellVars
    /\ UNCHANGED runCallVars

BatchSkip ==
    /\ pc = "batch"
    /\ idx <= Len(recipients)
    /\ ~should_stop
    /\ LET r == recipients[idx] IN
        /\ MissingAddress(r) \/ InvalidAddress(r) \/ RenderRaises(r)
        /\ IF MissingAddress(r)
           THEN /\ Skip(ErrorDetail(idx, r.email, <<"Email nao fornecido">>))
                /\ UNCHANGED render_calls
           ELSE IF InvalidAddress(r)
           THEN /\ Skip(ErrorDetail(idx, r.email, <<validate_email(r.email).err>>))
                /\ UNCHANGED render_calls
           ELSE /\ Skip(ErrorDetail(idx, r.email, TemplateErrorMessage(r)))
                /\ render_calls' = [render_calls EXCEPT ![idx] = @ + 1]
    /\ ClearCall
    /\ UNCHANGED << recipients, use_oauth, should_stop, is_connected, oauthVars,
                    runVars, recorderVars, now, stop_seen, send_calls >>
    /\ UNCHANGED authVars
    /\ UNCHANGED campaignVars
    /\ UNCHANGED templateVars
    /\ UNCHANGED shellVars
    /\ UNCHANGED runCallVars

\* The body is rendered and send_email is entered.
BatchSend ==
    /\ pc = "batch"
    /\ idx <= Len(recipients)
    /\ ~should_stop
    /\ LET r == recipients[idx] IN
        /\ ~MissingAddress(r) /\ ~InvalidAddress(r) /\ ~RenderRaises(r)
        /\ render_calls' = [render_calls EXCEPT ![idx] = @ + 1]
        /\ ClearCall
        /\ IF use_oauth
           THEN \* GmailSender.send_email, lines 150-164
                \E a \in is_authenticated(token_file, creds) :
                    /\ token_file' = a.token_file
                    /\ creds' = a.creds
                    /\ IF a.ret
                       THEN /\ service' = TRUE
                            /\ pc' = "send"
                            /\ UNCHANGED << idx, detalhes, sb_enviados, sb_erros,
                                            paceVars >>
                       ELSE /\ Complete(ErrorDetail(idx, r.email,
                                   <<"Nao autenticado. Execute authenticate() primeiro.">>))
                            /\ UNCHANGED service
                    /\ UNCHANGED is_connected
           ELSE \* EmailSender.send_email, lines 161-169
                \E connected \in (IF is_connected THEN {TRUE} ELSE BOOLEAN) :
                    /\ is_connected' = connected
                    /\ IF connected
                       THEN /\ pc' = "send"
                            /\ UNCHANGED << idx, detalhes, sb_enviados, sb_erros,
                                            paceVars >>
                       ELSE Complete(ErrorDetail(idx, r.email,
                                   <<"Nao foi possivel conectar ao servidor SMTP">>))
                    /\ UNCHANGED oauthVars
    /\ UNCHANGED << recipients, use_oauth, should_stop, runVars, recorderVars, now,
                    stop_seen, send_calls >>
    /\ UNCHANGED authVars
    /\ UNCHANGED campaignVars
    /\ UNCHANGED templateVars
    /\ UNCHANGED shellVars
    /\ UNCHANGED runCallVars

(***************************************************************************)
(* send_email: one pass of the retry loop, i.e. one submission.            *)
(***************************************************************************)
SmtpResponses ==
    {"ok", "SMTPRecipientsRefused", "SMTPDataError", "SMTPException", "Exception"}

GmailResponses ==
    { [kind |-> "ok", auth |-> FALSE, reason |-> "none", meta_ok |-> m] :
          m \in BOOLEAN }
    \cup { [kind |-> "HttpError", auth |-> a, reason |-> r, meta_ok |-> FALSE] :
          a \in BOOLEAN, r \in {"rateLimitExceeded", "quotaExceeded", "other"} }
    \cup { [kind |-> "Exception", auth |-> FALSE, reason |-> "none", meta_ok |-> FALSE] }

\* Faulty variant of Retry: the pass of the loop is not counted.
Retry_uncounted(to_email, pause) ==
    /\ slept' = pause
    /\ pc' = "send"
    /\ UNCHANGED << attempt, idx, detalhes, sb_enviados, sb_erros, paceVars >>

\* "time.sleep(pause); continue": the next pass of the for loop; after the
\* last pass the loop falls through.
Retry(to_email, pause) ==
    /\ slept' = pause
    /\ IF attempt + 1 < retry_count
       THEN /\ attempt' = attempt + 1
            /\ pc' = "send"
            /\ UNCHANGED << idx, detalhes, sb_enviados, sb_erros, paceVars >>
       ELSE /\ Complete(ErrorDetail(idx, to_email, <<"Falha apos multiplas tentativas">>))
            /\ UNCHANGED attempt

\* "if attempt < retry_count - 1: sleep; continue" else the failure is returned.
RetryOrFail(to_email, mensagem, pause) ==
    IF attempt < retry_count - 1
    THEN Retry(to_email, pause)
    ELSE /\ Complete(ErrorDetail(idx, to_email, mensagem))
         /\ slept' = 0
         /\ UNCHANGED attempt

\* The dict EmailSender.send_email returns for an accepted message: the
\* headers are those of the message built locally.
SmtpSendResult ==
    [message |-> <<"Email enviado com sucesso">>, gmail_message_id |-> << >>,
     headers |-> "local", raw |-> << >>]

\* Faulty variant of SmtpRetryable: every smtplib error is retried.
SmtpRetryable_all(resp) ==
    resp \in {"SMTPException", "SMTPRecipientsRefused", "SMTPDataError"}

\* The except clause that sleeps and retries: SMTPException, reached only
\* when the more specific clauses before it did not match.
SmtpRetryable(resp) == resp = "SMTPException"

\* EmailSender.send_email, lines 169-206
SmtpAttempt ==
    /\ pc = "send"
    /\ ~use_oauth
    /\ LET to_email == recipients[idx].email IN
       \E resp \in SmtpResponses :
        /\ send_calls' = [send_calls EXCEPT ![idx] = @ + 1]
        /\ last_resp' = <<resp>>
        /\ IF resp = "ok"
           THEN /\ Complete(SentDetail(idx, to_email, SmtpSendResult))
                /\ slept' = 0
                /\ UNCHANGED attempt
           ELSE IF SmtpRetryable(resp)
           THEN RetryOrFail(to_email, <<"Erro SMTP: ", resp>>, SmtpPause)
           ELSE IF resp = "SMTPRecipientsRefused"
           THEN /\ Complete(ErrorDetail(idx, to_email, <<"Destinatario recusado: ", resp>>))
                /\ slept' = 0
                /\ UNCHANGED attempt
           ELSE IF resp = "SMTPDataError"
           THEN /\ Complete(ErrorDetail(idx, to_email, <<"Erro de dados SMTP: ", resp>>))
                /\ slept' = 0
                /\ UNCHANGED attempt
           ELSE /\ Complete(ErrorDetail(idx, to_email, <<"Erro inesperado: ", resp>>))
                /\ slept' = 0
                /\ UNCHANGED attempt
    /\ UNCHANGED << recipients, use_oauth, should_stop, attempted_refresh, is_connected,
                    oauthVars, runVars, recorderVars, now, stop_seen, render_calls,
                    refreshes >>
    /\ UNCHANGED authVars
    /\ UNCHANGED campaignVars
    /\ UNCHANGED templateVars
    /\ UNCHANGED shellVars
    /\ UNCHANGED runCallVars

\* Faulty variant of GmailSendSucceeds: a failed metadata fetch is handled as
\* a failed send.
GmailSendSucceeds_meta(resp) == resp.kind = "ok" /\ resp.meta_ok

\* messages().send(...).execute() returned; the metadata fetch that follows
\* has its own try/except and cannot fail the send.
GmailSendSucceeds(resp) == resp.kind = "ok"

\* The dict GmailSender.send_email returns for an accepted message: the
\* provider's headers, or the local ones when the metadata fetch raised.
\* Only the dict of the fallback branch has the key 'raw'.
GmailSendResult(resp) ==
    [message |-> <<"Email enviado com sucesso. ID: ">>, gmail_message_id |-> <<"id">>,
     headers |-> IF resp.meta_ok THEN "provider" ELSE "local",
     raw |-> IF resp.meta_ok THEN << >> ELSE <<"raw">>]

\* GmailSender.send_email, lines 167-240
GmailAttempt ==
    /\ pc = "send"
    /\ use_oauth
    /\ LET to_email == recipients[idx].email IN
       \E resp \in GmailResponses :
        /\ send_calls' = [send_calls EXCEPT ![idx] = @ + 1]
        /\ last_resp' = <<resp>>
        /\ IF GmailSendSucceeds(resp)
           THEN /\ Complete(SentDetail(idx, to_email, GmailSendResult(resp)))
                /\ slept' = 0
                /\ UNCHANGED << attempt, attempted_refresh, token_file, creds,
                                refreshes >>
           ELSE IF resp.kind = "HttpError" /\ resp.auth /\ ~attempted_refresh
           THEN /\ attempted_refresh' = TRUE
                /\ \E a \in is_authenticated(token_file, creds) :   \* _refresh_auth
                    /\ refreshes' = Append(refreshes, a.ret)
                    /\ token_file' = a.token_file
                    /\ creds' = a.creds
                    /\ IF a.ret
                       THEN Retry(to_email, RefreshPause)
                       ELSE /\ Complete(ErrorDetail(idx, to_email,
                                   <<"Autenticacao expirada. Faca login novamente.">>))
                            /\ slept' = 0
                            /\ UNCHANGED attempt
           ELSE /\ UNCHANGED << attempted_refresh, token_file, creds, refreshes >>
                /\ IF resp.kind = "HttpError" /\ resp.reason = "rateLimitExceeded"
                   THEN RetryOrFail(to_email, <<"Limite de taxa excedido: ">>,
                                    RateLimitPause)
                   ELSE IF resp.kind = "HttpError" /\ resp.reason = "quotaExceeded"
                   THEN /\ Complete(ErrorDetail(idx, to_email, <<"Cota excedida: ">>))
                        /\ slept' = 0
                        /\ UNCHANGED attempt
                   ELSE IF resp.kind = "HttpError"
                   THEN RetryOrFail(to_email, <<"Erro Gmail API: ">>, ErrorPause)
                   ELSE RetryOrFail(to_email, <<"Erro inesperado: ">>, ErrorPause)
    /\ UNCHANGED << recipients, use_oauth, should_stop, is_connected, service,
                    runVars, recorderVars, now, stop_seen, render_calls >>
    /\ UNCHANGED authVars
    /\ UNCHANGED campaignVars
    /\ UNCHANGED templateVars
    /\ UNCHANGED shellVars
    /\ UNCHANGED runCallVars

(***************************************************************************)
(* BatchController.run, lines 70-137: recording, finalize, return.         *)
(***************************************************************************)
\* next((r for r in recipients if r.get("email") == email), {})
FirstMatch(email) ==
    CHOOSE i \in 1..Len(recipients) :
        /\ recipients[i].email = email
        /\ \A j \in 1..(i - 1) : recipients[j].email # email

\* An exception leaves run.
Raise ==
    /\ pc' = "raised"
    /\ UNCHANGED << k, run_enviados, run_erros, result, resumo, register_calls,
                    stats_calls >>

\* "total = len(stats.get('detalhes', [])) or total_recipients"
RunTotal == IF Len(detalhes) # 0 THEN Len(detalhes) ELSE Len(recipients)

\* self._stats(total, enviados, erros)
StatsCall(total, enviados, erros) ==
    [total |-> total, enviados |-> enviados, erros |-> erros]

\* recipient_data = next((r for r in recipients if r.get("email") == email), {})
recipient_data(email) == recipients[FirstMatch(email)]

RecordSent ==
    /\ pc = "record"
    /\ k <= Len(detalhes)
    /\ detalhes[k].status = "enviado"
    /\ LET detail == detalhes[k]
           m == FirstMatch(detail.email)
       IN
        /\ render_calls' = [render_calls EXCEPT ![m] = @ + 1]
        /\ IF RenderRaises(recipients[m])
           THEN /\ Raise
                /\ UNCHANGED << eml_files, eml_calls >>
           ELSE \E written \in BOOLEAN :       \* save_eml: the write succeeds or not
                LET eml_path == IF written THEN eml_filename(detail.email, now)
                                ELSE << >>
                IN
                /\ eml_files' = IF written THEN eml_files \cup {eml_path} ELSE eml_files
                /\ eml_calls' = Append(eml_calls,
                        [outcome |-> k, body |-> get_body(recipient_data(detail.email))])
                /\ IF RaisesTypeError(run_sent_kwargs, register_email_params)
                   THEN Raise
                   ELSE /\ resumo' = register_email(resumo, detail.email, "enviado",
                                                    detail.mensagem, eml_path)
                        /\ register_calls' = register_calls + 1
                        /\ run_enviados' = run_enviados + 1
                        /\ stats_calls' = Append(stats_calls,
                                StatsCall(RunTotal, run_enviados', run_erros))
                        /\ k' = k + 1
                        /\ UNCHANGED << pc, run_erros, result >>
    /\ UNCHANGED << recipients, use_oauth, should_stop, senderVars, is_connected,
                    oauthVars, disk_resumo, finalize_calls, now, stop_seen, send_calls,
                    paceVars, callVars >>
    /\ UNCHANGED authVars
    /\ UNCHANGED campaignVars
    /\ UNCHANGED templateVars
    /\ UNCHANGED shellVars

RecordError ==
    /\ pc = "record"
    /\ k <= Len(detalhes)
    /\ detalhes[k].status # "enviado"
    /\ LET detail == detalhes[k] IN
        IF RaisesTypeError(run_error_kwargs, register_email_params)
        THEN Raise
        ELSE /\ resumo' = register_email(resumo, detail.email, "erro",
                                         detail.mensagem, << >>)
             /\ register_calls' = register_calls + 1
             /\ run_erros' = run_erros + 1
             /\ stats_calls' = Append(stats_calls,
                    StatsCall(RunTotal, run_enviados, run_erros'))
             /\ k' = k + 1
             /\ UNCHANGED << pc, run_enviados, result >>
    /\ UNCHANGED << recipients, use_oauth, should_stop, senderVars, is_connected,
                    oauthVars, disk_resumo, eml_files, finalize_calls, now, histVars, paceVars, callVars,
                    eml_calls >>
    /\ UNCHANGED authVars
    /\ UNCHANGED campaignVars
    /\ UNCHANGED templateVars
    /\ UNCHANGED shellVars

\* send_batch's return value
BatchStats ==
    [total |-> Len(recipients), enviados |-> sb_enviados, erros |-> sb_erros,
     detalhes |-> detalhes]

\* comprovacao.finalize(), the final stats, disconnect(), return stats
FinishRun ==
    /\ pc = "record"
    /\ k > Len(detalhes)
    /\ resumo' = finalize(resumo)
    /\ \E written \in BOOLEAN :        \* json.dump succeeds or raises (caught)
        disk_resumo' = IF written THEN <<resumo'>> ELSE disk_resumo
    /\ finalize_calls' = finalize_calls + 1
    /\ is_connected' = IF use_oauth THEN is_connected ELSE FALSE
    /\ result' = <<BatchStats>>
    /\ stats_calls' = Append(stats_calls,
            StatsCall(BatchStats.total, BatchStats.enviados, BatchStats.erros))
    /\ pc' = "done"
    /\ UNCHANGED << recipients, use_oauth, should_stop, senderVars, oauthVars, k,
                    run_enviados, run_erros, eml_files, register_calls, now, histVars, paceVars, callVars,
                    eml_calls >>
    /\ UNCHANGED authVars
    /\ UNCHANGED campaignVars
    /\ UNCHANGED templateVars
    /\ UNCHANGED shellVars

Next ==
    \/ StopSending
    \/ Tick
    \/ TokenExpires
    \/ StartRun
    \/ BatchBreak
    \/ BatchReturn
    \/ BatchSkip
    \/ BatchSend
    \/ SmtpAttempt
    \/ GmailAttempt
    \/ RecordSent
    \/ RecordError
    \/ FinishRun

Spec == Init /\ [][Next]_vars

\* The steps of the batch worker up to the return of send_batch.
SendBatchStep ==
    \/ StartRun
    \/ BatchBreak
    \/ BatchReturn
    \/ BatchSkip
    \/ BatchSend
    \/ SmtpAttempt
    \/ GmailAttempt

\* SpecLive: the same run, in which the worker thread keeps running: every
\* call it makes to the transport returns and every sleep ends.
SpecLive == Init /\ [][Next]_vars /\ WF_vars(SendBatchStep)

(***************************************************************************)
(* SpecRec: a campaign's Comprovacao object driven through its methods.    *)
(***************************************************************************)
ApiEmails == {EmailDot, EmailUnd}
ApiStatuses == {"enviado", "erro", "pendente"}

InitRec ==
    /\ recipients = << >>
    /\ use_oauth = FALSE
    /\ token_file = "none"
    /\ pc = "api"
    /\ render_calls = << >>
    /\ send_calls = << >>
    /\ InitSender
    /\ InitRunLocals
    /\ InitRecorder
    /\ InitAuth
    /\ InitCampaign

notRecorderVars ==
    << recipients, use_oauth, should_stop, senderVars, is_connected, oauthVars,
       runVars, histVars, paceVars, callVars, authVars, campaignVars, runCallVars,
       templateVars, shellVars >>

\* Where a call of log() leaves its caller: the append to the log file is
\* inside a try whose handlers print the entry to stderr, so the call
\* returns whether or not the entry was written.
log_returns(written) == "api"

\* Where a call of save_eml() leaves its caller: building and writing the
\* file is inside a try whose handlers log and return None.
save_eml_returns(written) == "api"

\* Faulty variant of finalize_returns: a failed write of resumo.json leaves
\* finalize through the exception.
finalize_returns_raises(written) == IF written THEN "api" ELSE "raised"

\* Where a call of finalize() leaves its caller: json.dump is inside a try
\* whose handler logs the error.
finalize_returns(written) == "api"

\* Comprovacao.log: the entry is appended to the log file or the write fails.
ApiLog ==
    /\ pc = "api"
    /\ \E written \in BOOLEAN : pc' = log_returns(written)
    /\ UNCHANGED << recorderVars, now >>
    /\ UNCHANGED notRecorderVars

\* Comprovacao.save_eml: the file is written (and its path returned) or the
\* write fails (and None is returned).
ApiSaveEml ==
    /\ pc = "api"
    /\ \E to_email \in ApiEmails : \E written \in BOOLEAN :
        /\ eml_files' = IF written THEN eml_files \cup {eml_filename(to_email, now)}
                        ELSE eml_files
        /\ pc' = save_eml_returns(written)
    /\ UNCHANGED << resumo, disk_resumo, finalize_calls, register_calls, now >>
    /\ UNCHANGED notRecorderVars

\* Faulty variant of register_email_disk: the summary is rewritten once it exists.
register_email_disk_rewrite(disk, res) == IF disk = << >> THEN disk ELSE <<res>>

\* What register_email leaves in resumo.json: it does not write the file.
register_email_disk(disk, res) == disk

\* Comprovacao.register_email; eml_path is None or a path save_eml returned
\* for this address.
ApiRegister ==
    /\ pc = "api"
    /\ register_calls < MaxCalls
    /\ \E to_email \in ApiEmails : \E status \in ApiStatuses :
       \E eml_path \in {<< >>} \cup
                {f \in eml_files : status = "enviado" /\ f[1] = safe_email(to_email)} :
        /\ resumo' = register_email(resumo, to_email, status, <<"OK">>, eml_path)
        /\ disk_resumo' = register_email_disk(disk_resumo, resumo')
    /\ \E logged \in BOOLEAN : pc' = log_returns(logged)    \* self.log(...)
    /\ register_calls' = register_calls + 1
    /\ UNCHANGED << eml_files, finalize_calls, now >>
    /\ UNCHANGED notRecorderVars

\* Comprovacao.finalize
ApiFinalize ==
    /\ pc = "api"
    /\ finalize_calls < MaxCalls
    /\ resumo' = finalize(resumo)
    /\ \E written \in BOOLEAN :
        /\ disk_resumo' = IF written THEN <<resumo'>> ELSE disk_resumo
        /\ pc' = finalize_returns(written)
    /\ finalize_calls' = finalize_calls + 1
    /\ UNCHANGED << eml_files, register_calls, now >>
    /\ UNCHANGED notRecorderVars

NextRec ==
    \/ ApiLog
    \/ ApiSaveEml
    \/ ApiRegister
    \/ ApiFinalize
    \/ Tick

SpecRec == InitRec /\ [][NextRec]_vars

(***************************************************************************)
(* The Credential Lifecycle Manager on its own: the methods of one         *)
(* GoogleOAuth object called in any order, as the login dialog, the        *)
(* main window and GmailSender do, while the token's expiry time may pass. *)
(***************************************************************************)
CredentialsFileStates == {"ok", "missing", "malformed"}

\* GoogleOAuth.__init__: self.creds = None, self.service = None; the token
\* file is whatever an earlier session left.
InitOAuth ==
    /\ recipients = << >>
    /\ use_oauth = TRUE
    /\ token_file \in FileStates
    /\ pc = "auth"
    /\ render_calls = << >>
    /\ send_calls = << >>
    /\ InitSender
    /\ InitRunLocals
    /\ InitRecorder
    /\ credentials_file \in CredentialsFileStates
    /\ revoked = << >>
    /\ last_call = NoCall
    /\ campaigns = << >>

notOAuthVars ==
    << recipients, use_oauth, should_stop, pc, senderVars, is_connected, runVars,
       recorderVars, now, histVars, paceVars, callVars, credentials_file,
       campaignVars, runCallVars,
       templateVars, shellVars >>

\* The record of a call that is returning in this step.
Call(op, e, ret, msg, raised, flow, saved, caught, warned) ==
    [op |-> op, tf0 |-> token_file, cr0 |-> creds, env |-> e, ret |-> ret,
     msg |-> msg, raised |-> raised, flow |-> flow, saved |-> saved,
     caught |-> caught, warned |-> warned, tf1 |-> token_file', cr1 |-> creds',
     sv1 |-> service']

OAuthIsAuthenticated ==
    /\ pc = "auth"
    /\ \E a \in is_authenticated(token_file, creds) :
        /\ token_file' = a.token_file
        /\ creds' = a.creds
        /\ service' = service
        /\ last_call' = Call("is_authenticated", NoEnv, a.ret, "", "none", FALSE,
                             FALSE, FALSE, FALSE)
    /\ UNCHANGED revoked
    /\ UNCHANGED notOAuthVars

OAuthAuthenticate ==
    /\ pc = "auth"
    /\ \E e \in AuthEnvsFor(token_file, creds, credentials_file) :
        LET o == authenticate(token_file, creds, credentials_file, e) IN
        /\ token_file' = o.token_file
        /\ creds' = o.creds
        /\ service' = service
        /\ revoked' = IF o.ret THEN << >> ELSE revoked
        /\ last_call' = Call("authenticate", e, o.ret, o.msg, "none", o.flow,
                             o.saved, o.caught, o.warned)
    /\ UNCHANGED notOAuthVars

OAuthGetService ==
    /\ pc = "auth"
    /\ \E r \in RefreshOutcomes : \E sv \in SaveOutcomes :
        LET e == [NoEnv EXCEPT !.refresh = IF creds = "expired_rt" THEN r ELSE @,
                               !.save = IF creds = "expired_rt" /\ r = "ok"
                                        THEN sv ELSE @]
            o == get_service(token_file, creds, service, e) IN
        /\ token_file' = o.token_file
        /\ creds' = o.creds
        /\ service' = o.service
        /\ last_call' = Call("get_service", e, o.handle, "", o.raised, FALSE,
                             o.token_file # token_file, FALSE, FALSE)
    /\ UNCHANGED revoked
    /\ UNCHANGED notOAuthVars

OAuthRevoke ==
    /\ pc = "auth"
    /\ \E u \in UnlinkOutcomes : \E r \in RevokeOutcomes :
        LET e == [NoEnv EXCEPT !.unlink = IF TokenFileExists(token_file) THEN u ELSE @,
                               !.remote = IF creds # "none" /\ (u = "ok" \/ ~TokenFileExists(token_file))
                                          THEN r ELSE @]
            o == revoke_authentication(token_file, creds, service, e) IN
        /\ token_file' = o.token_file
        /\ creds' = o.creds
        /\ service' = o.service
        /\ revoked' = <<o.ret>>
        /\ last_call' = Call("revoke_authentication", e, o.ret, "", "none", FALSE,
                             FALSE, FALSE, FALSE)
    /\ UNCHANGED notOAuthVars

NextOAuth ==
    \/ OAuthIsAuthenticated
    \/ OAuthAuthenticate
    \/ OAuthGetService
    \/ OAuthRevoke
    \/ TokenExpires

SpecOAuth == InitOAuth /\ [][NextOAuth]_vars

(***************************************************************************)
(* SpecCampaigns: campaigns started one after another, as each click on    *)
(* the send button constructs a new Comprovacao, while time passes.        *)
(***************************************************************************)
InitCampaigns ==
    /\ recipients = << >>
    /\ use_oauth = FALSE
    /\ token_file = "none"
    /\ pc = "campaigns"
    /\ render_calls = << >>
    /\ send_calls = << >>
    /\ InitSender
    /\ InitRunLocals
    /\ InitRecorder
    /\ InitAuth
    /\ campaigns = << >>

notCampaignVars ==
    << recipients, use_oauth, should_stop, pc, senderVars, is_connected, oauthVars,
       runVars, recorderVars, histVars, paceVars, callVars, authVars, runCallVars,
       templateVars, shellVars >>

\* Comprovacao(campanha_name=...)
NewComprovacao ==
    /\ pc = "campaigns"
    /\ Len(campaigns) < MaxCalls
    /\ \E campanha_name \in CampaignNames :
        campaigns' = Append(campaigns, Comprovacao_init(campanha_name, now))
    /\ UNCHANGED << notCampaignVars, now >>

\* A minute passes between two campaigns.
MinutePasses ==
    /\ pc = "campaigns"
    /\ now \div SecondsPerMinute < MaxClock
    /\ now' = now + SecondsPerMinute
    /\ UNCHANGED << notCampaignVars, campaigns >>

NextCampaigns ==
    \/ NewComprovacao
    \/ Tick
    \/ MinutePasses

SpecCampaigns == InitCampaigns /\ [][NextCampaigns]_vars

(***************************************************************************)
(* SpecTemplate: a loaded TemplateProcessor asked to process a record,     *)
(* once per recipient and again when the evidence is saved.                *)
(***************************************************************************)
InitTemplate ==
    /\ recipients = << >>
    /\ use_oauth = FALSE
    /\ token_file = "none"
    /\ pc = "template"
    /\ render_calls = << >>
    /\ send_calls = << >>
    /\ InitSender
    /\ k = 1
    /\ run_enviados = 0
    /\ run_erros = 0
    /\ result = << >>
    /\ should_stop = FALSE
    /\ stop_seen = FALSE
    /\ stats_calls = << >>
    /\ eml_calls = << >>
    /\ shell = NoShell
    /\ InitRecorder
    /\ InitAuth
    /\ campaigns = << >>
    /\ \E parts \in Templates : \E data \in Records :
        render = [parts |-> parts, data |-> data, outs |-> << >>]

notTemplateVars ==
    << recipients, use_oauth, should_stop, pc, senderVars, is_connected, oauthVars,
       runVars, recorderVars, now, histVars, paceVars, callVars, authVars,
       campaignVars, runCallVars, shellVars >>

\* TemplateProcessor.process(data)
Process ==
    /\ pc = "template"
    /\ Len(render.outs) < MaxCalls
    /\ render' = [render EXCEPT
                    !.outs = Append(@, process(Concat(render.parts), render.data))]
    /\ UNCHANGED notTemplateVars

NextTemplate == Process

SpecTemplate == InitTemplate /\ [][NextTemplate]_vars

(***************************************************************************)
(* SpecUI: the shell with the provider-API transport chosen and a sender   *)
(* address configured.  The UI thread runs the button and trace handlers   *)
(* and the callbacks queued with root.after; each _sending_worker thread   *)
(* and the authenticate_worker thread take their steps in between.         *)
(* creds is the cache of the GmailSender the shell holds in                *)
(* self.gmail_sender; shell.dropped_creds is the cache of a GmailSender    *)
(* the shell has dropped while a worker still holds it as its sender.      *)
(***************************************************************************)
\* A click on a button runs its command only while the button is enabled.
Clickable(btn) == btn = NORMAL

\* The buttons _check_oauth_status, _handle_oauth_result and _oauth_logout
\* leave behind: login and logout are always set as a pair.
OAuthButtons(sh, authenticated) ==
    [sh EXCEPT !.oauth_login_btn = IF authenticated THEN DISABLED ELSE NORMAL,
               !.oauth_logout_btn = IF authenticated THEN NORMAL ELSE DISABLED]

\* A _sending_worker thread that has been started and has not yet reached
\* the end of its finally block.
Active(w) == w.pc \in {"new", "run", "inflight"}
RunInProgress == \E i \in 1..Len(shell.workers) : Active(shell.workers[i])

\* What the worker thread has touched of the shell's state, and how.
Direct(what) == [what |-> what, how |-> "direct"]
Dispatched(what) == [what |-> what, how |-> "dispatched"]

\* _run_on_ui_thread called from the worker: the widget write is queued
\* with root.after(0, ...) and runs later on the UI thread.
\* _log -> log_text, _update_stats -> stats_label.
WorkerLogs == {Dispatched("log_text")}
WorkerStats == {Dispatched("stats_label")}

\* The cache of the credential manager of the worker's sender.
SenderCreds ==
    IF shell.worker_sender = "held" THEN creds ELSE shell.dropped_creds

\* History: a handler of the UI thread (or the thread it started) that
\* loaded, refreshed, replaced or deleted the credentials of the sender in
\* use while a run was in progress.
Concurrent(op, changed) ==
    IF RunInProgress /\ changed THEN shell.ui_calls \cup {op} ELSE shell.ui_calls

\* MainWindow.__init__ with use_oauth loaded as True: lines 117-118 run
\* _check_oauth_status, which creates the GmailSender and asks it
\* is_authenticated().
InitUI ==
    /\ recipients = << >>
    /\ use_oauth = TRUE
    /\ pc = "ui"
    /\ render_calls = << >>
    /\ send_calls = << >>
    /\ idx = 1
    /\ detalhes = << >>
    /\ sb_enviados = 0
    /\ sb_erros = 0
    /\ attempt = 0
    /\ attempted_refresh = FALSE
    /\ is_connected = FALSE
    /\ service = FALSE
    /\ progress_calls = << >>
    /\ delays = << >>
    /\ slept = 0
    /\ refreshes = << >>
    /\ last_resp = << >>
    /\ now = 0
    /\ k = 1
    /\ run_enviados = 0
    /\ run_erros = 0
    /\ result = << >>
    /\ should_stop = FALSE
    /\ stop_seen = FALSE
    /\ stats_calls = << >>
    /\ eml_calls = << >>
    /\ render = NoRender
    /\ InitRecorder
    /\ InitAuth
    /\ campaigns = << >>
    /\ \E tf \in FileStates : \E a \in is_authenticated(tf, "none") :
        /\ token_file = a.token_file
        /\ creds = a.creds
        /\ shell = OAuthButtons([NoShell EXCEPT !.has_sender = TRUE], a.ret)

notShellVars ==
    << recipients, use_oauth, pc, senderVars, is_connected, runVars, recorderVars,
       now, histVars, paceVars, callVars, authVars, campaignVars, runCallVars,
       templateVars >>

\* _start_sending (the start button's command), OAuth branch: lines 699-702
\* create the GmailSender if the shell holds none and ask it
\* is_authenticated(); lines 738-752 mark the run and start the thread.
\* The dialogs it opens are modal, so no other handler runs inside it.
UiStartSending ==
    /\ pc = "ui"
    /\ Clickable(shell.start_btn)
    /\ Len(shell.workers) < MaxCalls
    /\ \E n \in 1..MaxRecipients :
       \E a \in is_authenticated(token_file, IF shell.has_sender THEN creds ELSE "none") :
        /\ token_file' = a.token_file
        /\ creds' = a.creds
        /\ IF a.ret
           THEN /\ should_stop' = FALSE
                /\ shell' = [shell EXCEPT
                     !.has_sender = TRUE,
                     !.is_sending = TRUE,
                     !.start_btn = start_btn_while_sending,
                     !.stop_btn = NORMAL,
                     !.workers = Append(@, [pc |-> "new", left |-> n]),
                     !.ui_calls = Concurrent("is_authenticated",
                                             a.token_file # token_file \/ a.creds # creds)]
           ELSE /\ should_stop' = should_stop
                /\ shell' = [shell EXCEPT
                     !.has_sender = TRUE,
                     !.ui_calls = Concurrent("is_authenticated",
                                             a.token_file # token_file \/ a.creds # creds)]
    /\ UNCHANGED service
    /\ UNCHANGED notShellVars

\* _stop_sending (the stop button's command), the user confirming.
UiStopSending ==
    /\ pc = "ui"
    /\ Clickable(shell.stop_btn)
    /\ should_stop' = TRUE
    /\ UNCHANGED << oauthVars, shell >>
    /\ UNCHANGED notShellVars

\* _oauth_logout (the logout button's command), the user confirming:
\* revoke_authentication() on the manager of the GmailSender the shell
\* holds, then self.gmail_sender = None.
UiLogout ==
    /\ pc = "ui"
    /\ Clickable(shell.oauth_logout_btn)
    /\ IF shell.has_sender
       THEN \E u \in UnlinkOutcomes : \E r \in RevokeOutcomes :
            LET e == [NoEnv EXCEPT
                        !.unlink = IF TokenFileExists(token_file) THEN u ELSE @,
                        !.remote = IF creds # "none"
                                      /\ (u = "ok" \/ ~TokenFileExists(token_file))
                                   THEN r ELSE @]
                o == revoke_authentication(token_file, creds, service, e)
                held == shell.worker_sender = "held" IN
            /\ token_file' = o.token_file
            /\ creds' = "none"
            /\ service' = o.service
            /\ shell' = OAuthButtons(
                 [shell EXCEPT
                    !.has_sender = FALSE,
                    !.worker_sender = IF held THEN "dropped" ELSE @,
                    !.dropped_creds = IF held THEN o.creds ELSE @,
                    !.ui_calls = Concurrent("revoke_authentication",
                                   \/ o.token_file # token_file
                                   \/ held /\ o.creds # creds)],
                 FALSE)
       ELSE /\ shell' = OAuthButtons(shell, FALSE)
            /\ UNCHANGED oauthVars
    /\ UNCHANGED should_stop
    /\ UNCHANGED notShellVars

\* _check_oauth_status, run by the write trace of the address field and
\* when the transport is chosen: it creates a GmailSender if the shell
\* holds none, asks it is_authenticated() and sets the buttons.
UiCheckStatus ==
    /\ pc = "ui"
    /\ \E a \in is_authenticated(token_file, IF shell.has_sender THEN creds ELSE "none") :
        /\ token_file' = a.token_file
        /\ creds' = a.creds
        /\ shell' = OAuthButtons(
             [shell EXCEPT
                !.has_sender = TRUE,
                !.ui_calls = Concurrent("is_authenticated",
                               \/ a.token_file # token_file
                               \/ shell.worker_sender = "held" /\ shell.has_sender
                                    /\ a.creds # creds)],
             a.ret)
    /\ UNCHANGED << should_stop, service >>
    /\ UNCHANGED notShellVars

\* root.update() (line 1058) runs the callbacks that are queued with
\* root.after before it returns; with no authentication result pending
\* they are all _finish callbacks.
Flushed(sh) ==
    IF sh.after = << >> THEN sh
    ELSE [sh EXCEPT !.after = << >>,
                    !.is_sending = FALSE,
                    !.start_btn = NORMAL,
                    !.stop_btn = DISABLED,
                    !.finished = @ + Len(sh.after)]

\* An authenticate_worker thread is running or its result is still queued.
Authenticating ==
    \/ shell.auth_thread
    \/ \E j \in 1..Len(shell.after) : shell.after[j] # "finish"

\* _oauth_authenticate (the login button's command), lines 1028-1089: it
\* replaces self.gmail_sender by a new GmailSender, disables the login
\* button, lets the event loop run (root.update()) and starts
\* authenticate_worker in a thread of its own.  One authentication at a
\* time: the browser flow of an earlier one has ended and its result has
\* been handled.
UiAuthenticate ==
    /\ pc = "ui"
    /\ Clickable(shell.oauth_login_btn)
    /\ ~Authenticating
    /\ LET held == shell.worker_sender = "held" /\ shell.has_sender IN
       shell' = Flushed([shell EXCEPT
                   !.has_sender = TRUE,
                   !.worker_sender = IF held THEN "dropped" ELSE @,
                   !.dropped_creds = IF held THEN creds ELSE @,
                   !.oauth_login_btn = DISABLED,
                   !.auth_thread = TRUE])
    /\ creds' = "none"
    /\ UNCHANGED << should_stop, token_file, service >>
    /\ UNCHANGED notShellVars

\* authenticate_worker, lines 1061-1085: self.gmail_sender.authenticate()
\* and the result queued for the UI thread with root.after.
AuthThread ==
    /\ pc = "ui"
    /\ shell.auth_thread
    /\ IF shell.has_sender
       THEN \E e \in AuthEnvsFor(token_file, creds, credentials_file) :
            LET o == authenticate(token_file, creds, credentials_file, e) IN
            /\ token_file' = o.token_file
            /\ creds' = o.creds
            /\ shell' = [shell EXCEPT
                 !.auth_thread = FALSE,
                 !.after = Append(@, IF o.ret THEN "oauth_ok" ELSE "oauth_failed"),
                 !.ui_calls = Concurrent("authenticate", o.token_file # token_file)]
       \* self.gmail_sender is None by now: AttributeError, lines 1076-1085
       ELSE /\ shell' = [shell EXCEPT !.auth_thread = FALSE,
                                      !.after = Append(@, "oauth_failed")]
            /\ UNCHANGED << token_file, creds >>
    /\ UNCHANGED << should_stop, service >>
    /\ UNCHANGED notShellVars

\* The UI thread's event loop runs the oldest callback queued with
\* root.after: _finish (lines 805-809) or _handle_oauth_result (1091-1157).
UiDispatch ==
    /\ pc = "ui"
    /\ shell.after # << >>
    /\ LET cb == Head(shell.after)
           sh == [shell EXCEPT !.after = Tail(@)] IN
       IF cb = "finish"
       THEN /\ shell' = [sh EXCEPT !.is_sending = FALSE,
                                   !.start_btn = NORMAL,
                                   !.stop_btn = DISABLED,
                                   !.finished = @ + 1]
            /\ UNCHANGED << token_file, creds >>
       ELSE IF cb = "oauth_ok"
       THEN /\ shell' = OAuthButtons(sh, TRUE)
            /\ UNCHANGED << token_file, creds >>
       ELSE IF shell.has_sender
       THEN \E a \in is_authenticated(token_file, creds) :
            /\ token_file' = a.token_file
            /\ creds' = a.creds
            /\ shell' = OAuthButtons(
                 [sh EXCEPT !.ui_calls = Concurrent("is_authenticated",
                                \/ a.token_file # token_file
                                \/ shell.worker_sender = "held" /\ a.creds # creds)],
                 a.ret)
       ELSE /\ shell' = OAuthButtons(sh, FALSE)
            /\ UNCHANGED << token_file, creds >>
    /\ UNCHANGED << should_stop, service >>
    /\ UNCHANGED notShellVars

SetWorker(i, w) == [shell EXCEPT !.workers[i] = w]

\* _sending_worker, lines 759-771: the thread reads the tk variables and
\* the shell's attributes, then enters BatchController.run, which asks the
\* sender is_authenticated() (batch_controller.py lines 42-45) and returns
\* early when it is not.  With self.gmail_sender None the run raises, the
\* error is logged and the finally block queues _finish.
WorkerBegin(i) ==
    /\ pc = "ui"
    /\ shell.workers[i].pc = "new"
    /\ LET reads == {Direct("google_email"), Direct("use_oauth"), Direct("subject"),
                     Direct("gmail_sender")} IN
       IF shell.has_sender
       THEN \E a \in is_authenticated(token_file, creds) :
            /\ token_file' = a.token_file
            /\ creds' = a.creds
            /\ shell' = [SetWorker(i, [pc |-> "run",
                                       left |-> IF a.ret THEN shell.workers[i].left ELSE 0])
                           EXCEPT !.worker_sender = "held",
                                  !.touched = @ \cup reads \cup WorkerLogs]
       ELSE /\ shell' = [SetWorker(i, [pc |-> "done", left |-> 0])
                           EXCEPT !.touched = @ \cup reads \cup WorkerLogs,
                                  !.after = Append(@, "finish")]
            /\ UNCHANGED << token_file, creds >>
    /\ UNCHANGED << should_stop, service >>
    /\ UNCHANGED notShellVars

\* One pass of send_batch's loop up to the submission: stop_flag() reads
\* self.should_stop (line 771); the progress callback logs; send_email asks
\* the sender's manager is_authenticated() and submits the message.
WorkerSend(i) ==
    /\ pc = "ui"
    /\ shell.workers[i].pc = "run"
    /\ shell.workers[i].left > 0
    /\ IF should_stop
       THEN /\ shell' = [SetWorker(i, [pc |-> "run", left |-> 0])
                           EXCEPT !.touched = @ \cup {Direct("should_stop")}]
            /\ UNCHANGED << token_file, creds >>
       ELSE \E a \in is_authenticated(token_file, SenderCreds) :
            /\ token_file' = a.token_file
            /\ creds' = IF shell.worker_sender = "held" THEN a.creds ELSE creds
            /\ shell' = [SetWorker(i, [shell.workers[i] EXCEPT !.pc = "inflight"])
                           EXCEPT !.dropped_creds =
                                     IF shell.worker_sender = "held" THEN @ ELSE a.creds,
                                  !.touched = @ \cup {Direct("should_stop")} \cup WorkerLogs]
    /\ UNCHANGED << should_stop, service >>
    /\ UNCHANGED notShellVars

\* The submission returns: the outcome is appended and the loop goes on.
WorkerSent(i) ==
    /\ pc = "ui"
    /\ shell.workers[i].pc = "inflight"
    /\ shell' = SetWorker(i, [pc |-> "run", left |-> shell.workers[i].left - 1])
    /\ UNCHANGED << should_stop, oauthVars >>
    /\ UNCHANGED notShellVars

\* send_batch is over: run records the outcomes, reporting statistics and
\* logging as it goes, and returns or raises; lines 774-785 log and the
\* finally block calls _finish_sending, which queues _finish.
WorkerReturn(i) ==
    /\ pc = "ui"
    /\ shell.workers[i].pc = "run"
    /\ shell.workers[i].left = 0
    /\ shell' = [SetWorker(i, [pc |-> "done", left |-> 0])
                   EXCEPT !.worker_sender = "unread",
                          !.touched = @ \cup WorkerLogs \cup WorkerStats
                                        \cup {Dispatched("start_btn")},
                          !.after = Append(@, "finish")]
    /\ UNCHANGED << should_stop, oauthVars >>
    /\ UNCHANGED notShellVars

NextUI ==
    \/ UiStartSending
    \/ UiStopSending
    \/ UiLogout
    \/ UiCheckStatus
    \/ UiAuthenticate
    \/ AuthThread
    \/ UiDispatch
    \/ \E i \in 1..Len(shell.workers) : WorkerBegin(i)
    \/ \E i \in 1..Len(shell.workers) : WorkerSend(i)
    \/ \E i \in 1..Len(shell.workers) : WorkerSent(i)
    \/ \E i \in 1..Len(shell.workers) : WorkerReturn(i)

SpecUI == InitUI /\ [][NextUI]_vars

(***************************************************************************)
(* Properties.                                                             *)
(***************************************************************************)
RunEnded == pc \in {"done", "raised", "aborted"}
RunPastBatch == pc \in {"record", "done", "raised"}

\* The outcomes send_batch produced for recipient i.
DetailsOf(i) == {j \in 1..Len(detalhes) : detalhes[j].src = i}

\* part occurs in seq as a contiguous run.
Includes(seq, part) ==
    \E p \in 1..(Len(seq) - Len(part) + 1) :
        SubSeq(seq, p, p + Len(part) - 1) = part

CountSent(emails) ==
    Cardinality({j \in 1..Len(emails) : emails[j].status = "enviado"})

\* The ledger is the image of the first Len(ledger) outcomes, in order.
LedgerIsPrefixOf(emails, outcomes) ==
    /\ Len(emails) <= Len(outcomes)
    /\ \A j \in 1..Len(emails) :
        /\ emails[j].email = outcomes[j].email
        /\ emails[j].status = outcomes[j].status

\* C1: when the transport is not ready (connect() or is_authenticated()
\* returned false) run returns at once: send_batch is not entered, nothing is
\* rendered or submitted, and the result has enviados = 0 and
\* erros = total = the number of recipients.
C1_NotReadyAbortsRun ==
    /\ pc = "aborted" =>
        /\ result # << >>
        /\ result[1].total = Len(recipients)
        /\ result[1].enviados = 0
        /\ result[1].erros = Len(recipients)
        /\ result[1].detalhes = << >>
        /\ idx = 1 /\ detalhes = << >>
        /\ \A i \in 1..Len(recipients) : send_calls[i] = 0 /\ render_calls[i] = 0
        /\ (~use_oauth => ~is_connected)
    /\ (pc \in {"batch", "send"} /\ ~use_oauth) => is_connected

C1_Witness ==
    /\ pc = "aborted"
    /\ Len(recipients) = MaxRecipients
    /\ use_oauth
    /\ token_file = "expired_rt"

\* C2: a recipient without an address gets a failure outcome, is neither
\* rendered nor submitted to the transport, and the loop goes on with the
\* next recipient (without a stop every recipient has an outcome).
C2_MissingAddressFails ==
    /\ \A i \in 1..Len(recipients) :
        recipients[i].email = NoEmail =>
            /\ render_calls[i] = 0
            /\ send_calls[i] = 0
            /\ \A j \in DetailsOf(i) : detalhes[j].status = "erro"
            /\ (i < idx => Cardinality(DetailsOf(i)) = 1)
    /\ (RunPastBatch /\ ~stop_seen) => Len(detalhes) = Len(recipients)

C2_Witness ==
    /\ pc = "record"
    /\ Len(recipients) = 2
    /\ recipients[1].email = NoEmail
    /\ Cardinality(DetailsOf(1)) = 1
    /\ \E j \in DetailsOf(2) : detalhes[j].status = "enviado"

\* C3: when rendering raises for a recipient, its outcome is a failure whose
\* message includes the render error, nothing is submitted to the transport
\* for it, and the loop goes on with the next recipient.
C3_RenderFailureFails ==
    /\ \A i \in 1..Len(recipients) :
        (recipients[i].nome = "ERR" /\ recipients[i].email # NoEmail
            /\ (use_oauth => validate_email(recipients[i].email).is_valid)) =>
            /\ send_calls[i] = 0
            /\ \A j \in DetailsOf(i) :
                /\ detalhes[j].status = "erro"
                /\ Includes(detalhes[j].mensagem, RenderError(recipients[i]))
            /\ (i < idx => Cardinality(DetailsOf(i)) = 1)
    /\ (RunPastBatch /\ ~stop_seen) => Len(detalhes) = Len(recipients)

C3_Witness ==
    /\ pc = "record"
    /\ Len(recipients) = 2
    /\ recipients[1].nome = "ERR"
    /\ render_calls[1] = 1
    /\ Cardinality(DetailsOf(1)) = 1
    /\ \E j \in DetailsOf(2) : detalhes[j].status = "enviado"

\* C4: one outcome per processed recipient, in input order; the ledger of the
\* Evidence Recorder is the ordered image of the outcomes, and when the run
\* has ended without a stop request the ledger has one entry per recipient.
C4_LedgerFollowsInput ==
    /\ Len(detalhes) = idx - 1
    /\ \A j \in 1..Len(detalhes) : detalhes[j].src = j
    /\ LedgerIsPrefixOf(resumo.emails, detalhes)
    /\ (pc \in {"done", "raised"} /\ ~stop_seen) =>
            Len(resumo.emails) = Len(recipients)

\* C5: once send_batch has seen the stop flag set, no later recipient is
\* rendered or submitted; the outcomes produced up to that point are all
\* recorded and the Evidence Recorder is finalized once.
C5_CancellationKeepsPartialResults ==
    /\ stop_seen =>
        \A i \in idx..Len(recipients) :
            send_calls[i] = 0 /\ Cardinality(DetailsOf(i)) = 0
    /\ (RunEnded /\ stop_seen) =>
        /\ finalize_calls = 1
        /\ Len(resumo.emails) = Len(detalhes)
        /\ LedgerIsPrefixOf(resumo.emails, detalhes)

\* C6: when the stop flag is seen after recipient k of n, the ended run has
\* recorded exactly the outcomes of recipients 1..k and the summary's totals
\* are k.
C6_StopAfterKRecordsK ==
    (RunEnded /\ stop_seen) =>
        /\ register_calls = idx - 1
        /\ resumo.total = idx - 1
        /\ resumo.enviados + resumo.erros = idx - 1

\* C7: every execution of run, however it ends, has called finalize()
\* exactly once, and no register_email follows it.
C7_FinalizeExactlyOnce ==
    /\ RunEnded => finalize_calls = 1
    /\ finalize_calls <= 1
    /\ finalize_calls = 1 => register_calls = Len(resumo.emails)

\* C8: enviados + erros is the number of ledger entries, and a summary written
\* by finalize() has total = the number of entries, enviados = the number of
\* entries with status 'enviado', erros = the number of the others.
C8_SummaryCountsMatchLedger ==
    /\ resumo.enviados + resumo.erros = Len(resumo.emails)
    /\ resumo.enviados = CountSent(resumo.emails)
    /\ Len(resumo.emails) = register_calls
    /\ disk_resumo # << >> =>
        LET doc == disk_resumo[1] IN
        /\ doc.total = Len(doc.emails)
        /\ doc.enviados = CountSent(doc.emails)
        /\ doc.erros = Len(doc.emails) - CountSent(doc.emails)

C8_Witness ==
    /\ disk_resumo # << >>
    /\ disk_resumo[1].total = 2
    /\ disk_resumo[1].enviados = 1
    /\ \E j \in 1..2 : disk_resumo[1].emails[j].status = "pendente"

\* C9: every outcome recorded as sent has exactly one .eml file of its own, so
\* the number of .eml files equals the sent count of the summary.
C9_OneEmlPerSentOutcome ==
    /\ Cardinality(eml_files) = resumo.enviados
    /\ \A j \in 1..Len(resumo.emails) :
        resumo.emails[j].status = "enviado" =>
            /\ resumo.emails[j].eml_path \in eml_files
            /\ \A h \in 1..Len(resumo.emails) :
                (h # j /\ resumo.emails[h].status = "enviado") =>
                    resumo.emails[h].eml_path # resumo.emails[j].eml_path

\* C10: a register_email call leaves the summary document on disk as
\* finalize() wrote it.
C10_RegisterKeepsWrittenSummary ==
    [][register_calls' # register_calls => disk_resumo' = disk_resumo]_vars

C10_Witness ==
    /\ disk_resumo # << >>
    /\ finalize_calls = 1
    /\ Len(disk_resumo[1].emails) = 1
    /\ Len(resumo.emails) = 2

\* The last element of a non-empty sequence.
Last(seq) == seq[Len(seq)]

\* This step is one submission of recipient idx to the transport.
Submits == pc = "send" /\ send_calls'[idx] = send_calls[idx] + 1

\* This step appends an outcome.
Outcome == Len(detalhes') = Len(detalhes) + 1

\* C11: progress_callback is called exactly once for every recipient that has
\* an outcome (a missing address, an invalid address and a render failure
\* included), in input order, and never before the outcome exists.
C11_ProgressOncePerOutcome ==
    /\ Len(progress_calls) = Len(detalhes)
    /\ \A j \in 1..Len(progress_calls) : progress_calls[j] = detalhes[j].src

\* C12: past the readiness check nothing but the stop flag ends the batch
\* early: run does not raise, it returns the statistics, and without a stop
\* every recipient has an outcome.
C12_OnlyStopEndsBatch ==
    /\ pc # "raised"
    /\ pc = "done" => result # << >>
    /\ (RunPastBatch /\ ~stop_seen) => Len(detalhes) = Len(recipients)

\* C13: EmailSender.send_email submits a message at most retry_count (3)
\* times; only a transient SMTPException is followed by another submission,
\* after a sleep of 2 s; when the last allowed submission fails that way the
\* outcome is a failure carrying that error; SMTPRecipientsRefused and
\* SMTPDataError end the send at once with a failure (one submission when
\* they answer the first one).
C13_SmtpRetryPolicy ==
    ~use_oauth =>
        /\ \A i \in 1..Len(recipients) : send_calls[i] <= retry_count
        /\ pc = "send" =>
            /\ send_calls[idx] = attempt
            /\ attempt > 0 => (last_resp = <<"SMTPException">> /\ slept = 2)
        /\ (pc = "batch" /\ last_resp # << >>) =>
            LET d == Last(detalhes) IN
            /\ slept = 0
            /\ last_resp[1] = "SMTPException" =>
                /\ send_calls[d.src] = 3
                /\ d.status = "erro"
                /\ d.mensagem = <<"Erro SMTP: ", "SMTPException">>
            /\ last_resp[1] \in {"SMTPRecipientsRefused", "SMTPDataError"} =>
                /\ d.status = "erro"
                /\ d.mensagem[2] = last_resp[1]
                /\ attempt = 0 => send_calls[d.src] = 1

C13_Witness ==
    /\ ~use_oauth
    /\ pc = "batch"
    /\ Len(detalhes) = 2
    /\ send_calls[1] = 3
    /\ detalhes[1].mensagem[1] = "Erro SMTP: "
    /\ send_calls[2] = 1
    /\ last_resp = <<"SMTPRecipientsRefused">>

\* C14: send_batch sleeps the pacing delay after every recipient's outcome
\* except the last recipient's, and does not sleep it once the stop flag is
\* set.
C14_PacingDelay ==
    [][Outcome => (delays' # delays <=> (idx < Len(recipients) /\ ~should_stop))]_vars

\* C15: GmailSender.send_batch validates every address: a recipient whose
\* address is present but invalid gets a failure outcome carrying the
\* validator's message, is neither rendered nor submitted, and the loop goes
\* on with the next recipient.
C15_InvalidAddressFails ==
    /\ \A i \in 1..Len(recipients) :
        (use_oauth /\ recipients[i].email # NoEmail
            /\ ~validate_email(recipients[i].email).is_valid) =>
            /\ send_calls[i] = 0
            /\ render_calls[i] = 0
            /\ \A j \in DetailsOf(i) :
                /\ detalhes[j].status = "erro"
                /\ detalhes[j].mensagem = <<"Formato de email invalido">>
            /\ (i < idx => Cardinality(DetailsOf(i)) = 1)
    /\ (use_oauth /\ RunPastBatch /\ ~stop_seen) => Len(detalhes) = Len(recipients)

C15_Witness ==
    /\ use_oauth
    /\ pc = "record"
    /\ Len(recipients) = 2
    /\ recipients[1].email = EmailBad
    /\ Cardinality(DetailsOf(1)) = 1
    /\ \E j \in DetailsOf(2) : detalhes[j].status = "enviado"

\* The outcome this step appends says the authentication has expired.
AuthExpiredOutcome ==
    /\ Outcome
    /\ Last(detalhes').status = "erro"
    /\ Last(detalhes').mensagem = <<"Autenticacao expirada. Faca login novamente.">>

\* C16: an auth-expired answer triggers at most one _refresh_auth per
\* recipient; when the refresh succeeds the send is submitted again, and an
\* accepted submission gives the outcome 'enviado'.
C16_OneRefreshThenRetry ==
    [][/\ Len(refreshes') <= 1
       /\ (Len(refreshes') = Len(refreshes) + 1 /\ Last(refreshes')) =>
            (pc' = "send" /\ ~Outcome)
       /\ (use_oauth /\ Submits /\ last_resp'[1].kind = "ok") =>
            (Outcome /\ Last(detalhes').status = "enviado")]_vars

\* C17: when the refresh fails, or the submission made after a successful
\* refresh is answered auth-expired again, the recipient fails with the
\* "authentication expired" message and nothing more is submitted for it.
C17_AuthExpiredFails ==
    [][(/\ use_oauth
        /\ Submits
        /\ last_resp'[1].kind = "HttpError"
        /\ last_resp'[1].auth
        /\ \/ attempted_refresh
           \/ (Len(refreshes') = Len(refreshes) + 1 /\ ~Last(refreshes')))
       => AuthExpiredOutcome]_vars

\* C18: a rate-limited answer is followed by another submission after a sleep
\* of 5 s while fewer than 3 submissions were made; the third rate-limited
\* answer gives a failure with the rate-limit message, and the loop goes on
\* with the next recipient.
C18_RateLimitRetried ==
    [][(/\ use_oauth
        /\ Submits
        /\ last_resp'[1].kind = "HttpError"
        /\ last_resp'[1].reason = "rateLimitExceeded")
       => IF send_calls'[idx] < 3
          THEN pc' = "send" /\ ~Outcome /\ slept' = 5
          ELSE /\ Outcome
               /\ Last(detalhes').status = "erro"
               /\ Last(detalhes').mensagem = <<"Limite de taxa excedido: ">>
               /\ pc' = "batch" /\ idx' = idx + 1]_vars

\* C19: a quota-exceeded answer, whatever its HTTP status, fails the recipient
\* at once with the quota message: no retry, no sleep, no refresh.
C19_QuotaFailsAtOnce ==
    [][(/\ use_oauth
        /\ Submits
        /\ last_resp'[1].kind = "HttpError"
        /\ last_resp'[1].reason = "quotaExceeded")
       => /\ Outcome
          /\ Last(detalhes').status = "erro"
          /\ Last(detalhes').mensagem = <<"Cota excedida: ">>
          /\ refreshes' = refreshes
          /\ slept' = 0]_vars

\* C20: when the provider accepted the message, the send is over and its
\* outcome is 'enviado' with the provider's message id, whether or not the
\* metadata fetch succeeded; after a failed fetch the outcome carries the
\* headers built locally.  No ledger entry contradicts the outcome.
C20_MetadataFailureStillSent ==
    /\ (use_oauth /\ last_resp # << >> /\ last_resp[1].kind = "ok") =>
        /\ pc = "batch"
        /\ Last(detalhes).status = "enviado"
        /\ Last(detalhes).gmail_message_id # << >>
        /\ Last(detalhes).headers =
                (IF last_resp[1].meta_ok THEN "provider" ELSE "local")
        /\ send_calls[Last(detalhes).src] = attempt + 1
    /\ sb_enviados = CountSent(detalhes)
    /\ LedgerIsPrefixOf(resumo.emails, detalhes)

C20_Witness ==
    /\ use_oauth
    /\ pc = "batch"
    /\ last_resp # << >>
    /\ last_resp[1].kind = "ok"
    /\ ~last_resp[1].meta_ok
    /\ attempt = 1
    /\ Last(detalhes).status = "enviado"
    /\ Last(detalhes).headers = "local"

\* C21: every outcome 'enviado' of a provider-API send carries a hash of the
\* raw message that was transmitted.
C21_SentCarriesRawHash ==
    use_oauth =>
        \A i \in 1..Len(detalhes) :
            detalhes[i].status = "enviado" => detalhes[i].raw_hash # << >>

C23_AuthenticateIdempotent ==
    [][OAuthAuthenticate =>
        /\ TokenValid(token_file) =>
                /\ last_call'.ret
                /\ ~last_call'.flow
                /\ token_file' = token_file
        /\ (/\ last_call.op = "authenticate"
            /\ last_call.ret
            /\ token_file = last_call.tf1
            /\ creds = last_call.cr1) =>
                (last_call'.ret /\ ~last_call'.flow)]_vars

\* The reasons authenticate returns with True.
AuthSuccessMessage == "Autenticacao realizada com sucesso!"

\* C24: when _save_credentials wrote the token during this call of
\* authenticate, the call reports success, also when an exception surfaced
\* after the grant or after the write; when the interactive grant failed
\* with no token obtained (cancellation, warning, timeout, connection error,
\* any other error) the call reports False with a reason and the token file
\* is as it was.
C24_PersistedTokenIsSuccess ==
    last_call.op = "authenticate" =>
        /\ last_call.saved => (last_call.ret /\ TokenValid(last_call.tf1))
        /\ (last_call.flow /\ last_call.env.flow \notin FlowGrants) =>
                /\ ~last_call.ret
                /\ last_call.msg \notin {"", AuthSuccessMessage}
                /\ ~last_call.saved
                /\ last_call.tf1 = last_call.tf0

C24_Witness ==
    /\ last_call.op = "authenticate"
    /\ last_call.flow
    /\ last_call.saved
    /\ last_call.caught
    /\ last_call.ret

\* C25, as worded: get_service returns a handle when the cached token is
\* valid; when it is expired with a refresh credential it refreshes it,
\* persists the refreshed token and returns a handle; in every other state
\* it raises "not authenticated" and returns no handle.
C25_GetServiceAsWorded ==
    last_call.op = "get_service" =>
        /\ TokenValid(last_call.cr0) => last_call.ret
        /\ last_call.cr0 = "expired_rt" =>
                /\ last_call.ret
                /\ last_call.cr1 = "valid_rt"
                /\ last_call.tf1 = "valid_rt"
        /\ last_call.cr0 \in {"none", "expired_nort"} =>
                (~last_call.ret /\ last_call.raised = "not_authenticated")

\* C25, amended: with a valid cached token get_service returns a handle and
\* changes no token; with an expired cached token that has a refresh
\* credential it returns a handle exactly when the refresh and the write of
\* the refreshed token both succeed (cached token and token file are then
\* the refreshed token), and otherwise lets the exception of the refresh or
\* of the write reach the caller; with no cached token or an expired one
\* without refresh credential it raises "not authenticated".  A handle is
\* returned only with a valid cached token, and no handle is returned when
\* an exception is raised.
C25_GetService ==
    last_call.op = "get_service" =>
        /\ TokenValid(last_call.cr0) =>
                /\ last_call.ret
                /\ last_call.cr1 = last_call.cr0
                /\ last_call.tf1 = last_call.tf0
        /\ last_call.cr0 = "expired_rt" =>
                /\ last_call.ret <=>
                        (last_call.env.refresh = "ok" /\ last_call.env.save = "ok")
                /\ last_call.ret =>
                        (last_call.cr1 = "valid_rt" /\ last_call.tf1 = "valid_rt")
                /\ last_call.env.refresh = "raised" =>
                        /\ last_call.raised = "refresh"
                        /\ last_call.cr1 = last_call.cr0
                        /\ last_call.tf1 = last_call.tf0
                /\ (last_call.env.refresh = "ok" /\ last_call.env.save = "raised") =>
                        (last_call.raised = "save" /\ last_call.tf1 = last_call.tf0)
        /\ last_call.cr0 \in {"none", "expired_nort"} =>
                /\ last_call.raised = "not_authenticated"
                /\ last_call.cr1 = last_call.cr0
                /\ last_call.tf1 = last_call.tf0
        /\ last_call.ret <=> last_call.raised = "none"
        /\ last_call.ret => (TokenValid(last_call.cr1) /\ last_call.sv1)

C25_Witness ==
    /\ last_call.op = "get_service"
    /\ last_call.cr0 = "expired_rt"
    /\ last_call.ret
    /\ last_call.tf1 = "valid_rt"
    /\ last_call.sv1

\* C26, as worded: revoke_authentication never raises, and once it has
\* returned the token file does not exist, the cached credentials and the
\* client handle are cleared, and is_authenticated reports false until an
\* authenticate succeeds.
C26_RevokeAsWorded ==
    /\ last_call.op = "revoke_authentication" =>
        /\ last_call.raised = "none"
        /\ last_call.tf1 = "none"
        /\ last_call.cr1 = "none"
        /\ ~last_call.sv1
    /\ (revoked # << >> /\ last_call.op = "is_authenticated") => ~last_call.ret

\* C26, amended: revoke_authentication never raises, whatever the remote
\* revocation does.  It returns False only when deleting the token file
\* failed, and then the file, the cached credentials and the handle are as
\* they were.  When it returns True the token file does not exist and the
\* cached credentials and the handle are cleared; from then on, and until a
\* call of authenticate puts credentials in memory again (whether or not
\* that call reports success), there is no token file and no handle, and
\* is_authenticated reports false.
C26_Revoke ==
    /\ [](last_call.op = "revoke_authentication" =>
            /\ last_call.raised = "none"
            /\ ~last_call.ret <=>
                    (TokenFileExists(last_call.tf0) /\ last_call.env.unlink = "raised")
            /\ last_call.ret =>
                    /\ last_call.tf1 = "none"
                    /\ last_call.cr1 = "none"
                    /\ ~last_call.sv1
            /\ ~last_call.ret =>
                    /\ last_call.tf1 = last_call.tf0
                    /\ last_call.cr1 = last_call.cr0)
    /\ []((revoked = <<TRUE>> /\ creds = "none") =>
            /\ token_file = "none"
            /\ ~service
            /\ last_call.op = "is_authenticated" => ~last_call.ret)
    /\ [][(revoked = <<TRUE>> /\ creds = "none" /\ creds' # "none") =>
            OAuthAuthenticate]_vars

C26_Witness ==
    /\ last_call.op = "revoke_authentication"
    /\ TokenValid(last_call.tf0)
    /\ TokenValid(last_call.cr0)
    /\ last_call.env.remote = "raised"
    /\ last_call.ret
    /\ last_call.tf1 = "none"

\* C27: the identity check is advisory.  Whatever authenticate returned, it
\* would have returned the same result, and left the same token file and
\* the same cached credentials, had the profile lookup answered with the
\* configured address, with another address, or with an error, everything
\* else being equal; the only effect of another address is the warning.
C27_IdentityCheckAdvisory ==
    last_call.op = "authenticate" =>
        /\ \A id \in IdentityOutcomes :
            LET o == authenticate(last_call.tf0, last_call.cr0, credentials_file,
                                  [last_call.env EXCEPT !.identity = id])
            IN  /\ o.ret = last_call.ret
                /\ o.token_file = last_call.tf1
                /\ o.creds = last_call.cr1
        /\ last_call.warned => last_call.env.identity = "mismatch"

C27_Witness ==
    /\ last_call.op = "authenticate"
    /\ last_call.env.identity = "mismatch"
    /\ last_call.warned
    /\ last_call.ret
    /\ TokenValid(last_call.tf1)

\* creds.refresh(Request()) succeeds in this step: the only way the token of
\* a run is replaced (a run never starts the interactive grant).
TokenRefreshed == token_file = "expired_rt" /\ token_file' = "valid_rt"

\* C30: when a submission is answered auth-expired and send_email goes on to
\* submit again for the same recipient, the token has been refreshed in
\* between.
C30_NoReuseAfterAuthExpired ==
    [][(/\ use_oauth
        /\ Submits
        /\ last_resp' # << >>
        /\ last_resp'[1].kind = "HttpError"
        /\ last_resp'[1].auth
        /\ pc' = "send") => TokenRefreshed]_vars

\* C39: whenever authenticate() has returned success, the manager holds
\* usable credentials: called right after it (before the token's expiry
\* time passes, every refresh and save succeeding), is_authenticated()
\* returns true and get_service() does not raise.
C39_SuccessMeansUsable ==
    (last_call.op = "authenticate" /\ last_call.ret) =>
        /\ \E o \in is_authenticated(last_call.tf1, last_call.cr1) : o.ret
        /\ get_service(last_call.tf1, last_call.cr1, last_call.sv1, NoEnv).raised = "none"

(***************************************************************************)
(* Claims about the Evidence Recorder's write failures (SpecRec).          *)
(***************************************************************************)
\* C28: a failure to write the text log, a raw-message file or the JSON
\* summary never leaves the recorder: every call of log(), save_eml() and
\* finalize() (and of register_email(), which logs) returns to its caller,
\* whether or not its write succeeded, so the caller goes on recording; a
\* failed write leaves the files as they were.
C28_WriteFailuresAreCaught ==
    [][(ApiLog \/ ApiSaveEml \/ ApiRegister \/ ApiFinalize) =>
          /\ pc' = "api"
          /\ eml_files \subseteq eml_files'
          /\ disk_resumo' \in {disk_resumo, <<resumo'>>}]_vars

\* finalize() ran and its write failed every time (there is no resumo.json),
\* it returned, and a later register_email was recorded.
C28_Witness ==
    /\ pc = "api"
    /\ finalize_calls >= 1
    /\ disk_resumo = << >>
    /\ resumo.total < Len(resumo.emails)

(***************************************************************************)
(* Claims about the campaign's directory (SpecCampaigns).                  *)
(***************************************************************************)
\* C29: no two constructions of Comprovacao use the same directory, whatever
\* their names and however close together in time they are made.
C29_DirectoryNeverReused ==
    \A i \in DOMAIN campaigns : \A j \in DOMAIN campaigns :
        i # j => campaigns[i].campanha_dir # campaigns[j].campanha_dir

(***************************************************************************)
(* Claims about termination of the provider-API sender (SpecLive).         *)
(***************************************************************************)
\* C40: with the provider-API transport, whatever the provider answers,
\* no recipient is submitted more than retry_count times, every send_email
\* that returned left one outcome (sent or failed, with its message), and
\* send_batch returns.
C40_SendTerminates ==
    /\ [](use_oauth =>
            /\ \A i \in DOMAIN send_calls : send_calls[i] <= retry_count
            /\ attempt < retry_count
            /\ Len(detalhes) = idx - 1
            /\ \A i \in DOMAIN detalhes :
                    /\ detalhes[i].status \in {"enviado", "erro"}
                    /\ detalhes[i].mensagem # << >>)
    /\ <>(use_oauth => pc \notin {"start", "batch", "send"})

\* send_batch returned after a recipient was submitted retry_count times,
\* the pass after a token refresh included.
C40_Witness ==
    /\ use_oauth
    /\ pc = "record"
    /\ \E i \in DOMAIN send_calls :
        /\ send_calls[i] = retry_count
        /\ detalhes[i].status = "erro"

(***************************************************************************)
(* Claims about the order of sending and recording within a run (Spec).    *)
(***************************************************************************)
\* C31: while a recipient's send is in progress, every recipient whose send
\* has completed already has its outcome in the recorder's ledger.
C31_RecordedBeforeNextSend ==
    pc = "send" =>
        \A i \in DOMAIN detalhes :
            detalhes[i].status = "enviado" =>
                \E j \in DOMAIN resumo.emails :
                    resumo.emails[j].email = detalhes[i].email

\* C36: the stats callback is invoked after each outcome with running
\* totals: when the next recipient is processed (and when the run has
\* ended) every outcome so far has had its call, the k-th call reports
\* enviados + erros = k, and neither number decreases between calls.
C36_StatsAfterEachOutcome ==
    /\ (pc = "send" \/ (pc = "batch" /\ idx <= Len(recipients)) \/ pc \in {"done", "raised"})
            => Len(stats_calls) >= Len(detalhes)
    /\ \A i \in DOMAIN stats_calls :
            /\ i <= Len(detalhes) => stats_calls[i].enviados + stats_calls[i].erros = i
            /\ i > 1 => /\ stats_calls[i].enviados >= stats_calls[i - 1].enviados
                        /\ stats_calls[i].erros >= stats_calls[i - 1].erros

\* C37: when run has returned after send_batch, its result and the final
\* stats call agree with the outcomes: enviados is the number of sent
\* outcomes, erros the number of the others, and total = enviados + erros =
\* the number of outcomes, also when the stop signal cut the run short.
C37_ResultMatchesOutcomes ==
    pc = "done" =>
        /\ result # << >>
        /\ LET r == result[1]
               final == stats_calls[Len(stats_calls)]
           IN  /\ r.enviados = CountSent(r.detalhes)
               /\ r.erros = Len(r.detalhes) - CountSent(r.detalhes)
               /\ r.total = r.enviados + r.erros
               /\ r.total = Len(r.detalhes)
               /\ final = StatsCall(r.total, r.enviados, r.erros)

\* C38: when the run has ended, every sent outcome has had its raw-message
\* evidence saved, with the body that was rendered from that recipient's
\* own record and transmitted.
C38_EvidenceBodyIsSentBody ==
    pc \in {"done", "raised"} =>
        \A i \in DOMAIN detalhes :
            detalhes[i].status = "enviado" =>
                \E c \in DOMAIN eml_calls :
                    /\ eml_calls[c].outcome = i
                    /\ eml_calls[c].body = get_body(recipients[detalhes[i].src])

(***************************************************************************)
(* Claims about TemplateProcessor.process (SpecTemplate).                  *)
(***************************************************************************)
\* The output a template's parts call for when every placeholder of the
\* key resolves to the text v and a malformed placeholder to nothing.
RECURSIVE Resolved(_, _)
Resolved(parts, v) ==
    IF parts = << >> THEN << >>
    ELSE (IF Head(parts) \in {PartLower, PartUpper, PartCapital} THEN v
          ELSE IF Head(parts) = PartMalformed THEN << >>
          ELSE Head(parts)) \o Resolved(Tail(parts), v)

\* C35: in every output of process, {{co}}, {{CO}} and {{Co}} have all been
\* replaced by one and the same text, {{c o}} has been removed and the text
\* around them is intact, whether or not the record has the key "c o"; and
\* processing again gives the same output.
C35_PlaceholdersResolveAlike ==
    \A n \in DOMAIN render.outs :
        /\ \E i \in 1..(Len(render.outs[n]) + 1) : \E j \in 0..Len(render.outs[n]) :
                render.outs[n] = Resolved(render.parts, SubSeq(render.outs[n], i, j))
        /\ render.outs[n] = render.outs[1]

C34_SingleWorker ==
    /\ [](/\ Cardinality({i \in 1..Len(shell.workers) : Active(shell.workers[i])}) <= 1
          /\ Cardinality({i \in 1..Len(shell.workers) :
                            shell.workers[i].pc = "inflight"}) <= 1)
    /\ [][Len(shell'.workers) > Len(shell.workers)
            => /\ shell.finished = Len(shell.workers)
               /\ ~shell.is_sending]_vars

\* A second run has a send in flight after the first run's finish handler ran.
C34_Witness ==
    /\ Len(shell.workers) = 2
    /\ shell.workers[2].pc = "inflight"
    /\ shell.finished = 1

====
